---------------------------- MODULE Spec2Model ----------------------------
(***************************************************************************)
(* Verification model of kamm3r/moukari: the hammer-throw estimation       *)
(* pipeline (drag simulator, release/landing segmenter, velocity fit,      *)
(* outlier rejection, video processing driver).                            *)
(*                                                                         *)
(* Numbers.  JavaScript numbers are modelled by scaled integers:           *)
(*   simulator : time in ms, position in um, velocity in um/s;             *)
(*   segmenter : pixel coordinates are integers, step speeds are exact     *)
(*               because the step vectors used are axis aligned or         *)
(*               Pythagorean;                                              *)
(* a NaN is carried explicitly (record field nan).                         *)
(***************************************************************************)
EXTENDS Integers, Sequences, FiniteSets, TLC

VARIABLES
  \* ---- physics.ts : calculateThrowWithDrag ----
  simPc,        \* "loop" (inside/at the while test) | "done" (returned)
  params,       \* the PhysicsParams argument
  x, y,         \* position, um         (NaN-able numbers)
  vx, vy,       \* velocity, um/s       (NaN-able numbers)
  t,            \* simulated time, ms
  maxHeight,    \* um
  trajectory,   \* sequence of samples [x, y, t]
  simSteps,     \* number of loop iterations executed
  simResult,    \* the returned PhysicsResult (NoResult before the return)
  \* ---- video-processor.ts : processVideo ----
  pvPc,           \* "loading" | "tracking" | "physics" | "returned"
  pvUseWorkers,   \* options.useWorkers
  pvPromise,      \* the promise processVideo returns: [state, value]
  pvLoadTimer,    \* the 30 s timeoutId: "armed" | "cleared" | "fired"
  pvVideo,        \* the video element: "live" | "removed"
  pvTracking,     \* what the tracking promise resolved to, once awaited
  pvPhysicsCalls, \* number of calculatePhysics invocations (either thread)
  pvThrown,       \* the error the handler's catch block passed to reject
  pvWorker,       \* physics worker: "none" | "posted" | "result" | "error" | "terminated"
  pvProgress,     \* last value handed to onProgress
  pvRaceTimer,    \* the 5 minute timer of the race: "none" | "armed" | "fired"
  \* ---- tracking.worker.ts : state.trajectory and detectReleaseLanding ----
  segPc,          \* "tracking" (frames are being processed) | "done"
  segTrajectory,  \* state.trajectory
  segResult,      \* the TrackingResultPayload (NoSegResult before)
  \* ---- velocityFit.ts fitVelocity, physics.ts fitVelocityFromPositions ----
  fitPc,          \* "window" | "sum" (first loop) | "r2" (second loop) | "done"
  fitFn,          \* the function called: "fitVelocity" | "fitVelocityFromPositions"
  fitPoints,      \* the regression window: pixel positions and frames
  fitMeters,      \* the window in metres and seconds, as the fit reads it
  fitI,           \* the number of points the running loop has consumed
  fitSums,        \* sumT, sumTT, sumX, sumXT, sumY, sumYT
  fitVel,         \* vx, vy once computed
  fitSquares,     \* ssResX, ssTotX, ssResY, ssTotY
  fitResult,      \* the value returned (NoFit before)
  fitDivByZero,   \* a division by a zero divisor has been performed
  \* ---- cleanTrackedPoints.ts rejectOutliers ----
  rejPc,          \* "points" | "done" | "again" (filtered a second time)
  rejPoints,      \* points
  rejVelocity,    \* velocity
  rejResult,      \* the array returned (NoRejResult before)
  rejSecond,      \* the array returned for rejResult (NoRejResult before)
  physPc,         \* "tracking" | "done"
  physTrajectory, \* trajectory, one point per frameStep frames
  physArgs,       \* releaseFrame, fps, scaleFactor of the call
  physResult,     \* releaseVelocity, releaseAngle, flightTime (NoPhysResult before)
  dcPrevious,     \* the first call of calculateDistanceConfidence, once there are two
  dcLast,         \* the last call: tracked, predicted, confidence (NoDcCall before)
  turnPc,         \* "tracking" | "done"
  turnTrajectory, \* trajectory of the worker result
  turnReleaseIndex,\* releaseIndex of the call (-1 before)
  turnResult,     \* the TurnMetrics array returned (NoTurns before)
  tpStep,         \* currentStep: "upload" | "calibrate" | "measure" | "results"
  tpScalePoints,  \* scalePoints
  tpRealWorldDistance, \* realWorldDistance, mm
  tpPixelsPerMeter, \* pixelsPerMeter, a Ratio
  tpAnalysed,     \* the pixelsPerMeter runAnalysis handed to the tracker (NoRatio before)
  tpSubStep,      \* measureSubStep: "point1" | "point2" | "ground" | "ready"
  tpCurrentTime,  \* currentTime, in frames
  tpPoint1,       \* point1 (NullPoint for null)
  tpPoint2,       \* point2 (NullPoint for null)
  tpGroundY,      \* groundY (NullPoint for null)
  tpResult,       \* the result of the two-point calculation (NoThrow before)
  cvModuleIsPromise,\* cvModule instanceof Promise
  cvMat,          \* cvModule.Mat is defined
  cvCall,         \* per call of loadOpenCV: where it stands and the value its promise resolved to
  cvAllocated,    \* the number of objects the calls have allocated
  crdPc,          \* "idle" | "tracking" | "result" | "physics" | "failed"
  crdVideo,       \* payload.videoWidth, payload.videoHeight of init
  crdScale,       \* state.scale, an exact fraction
  crdCenterScaled,\* state.circleCenterScaled
  crdTrajectory,  \* state.trajectory of the worker
  crdReported,    \* the non-null points posted with frameProcessed
  crdResult,      \* the TrackingResultPayload
  crdPhysics,     \* the arguments of calculatePhysics
  trkPc,          \* "start" | "init" | "seek" | "frame" | "detect" | "done": what the call awaits
  trkWorker,      \* the Worker: "none" | "running" | "terminated"
  trkTotal,       \* totalFrames
  trkFrameNum,    \* frameNum
  trkOverTime,    \* Date.now() - startTime > maxProcessingTime
  trkExit,        \* "none" | "returned" | the message of the error thrown
  ocvStarted,     \* the loader module is loaded in the page
  ocvInstance,    \* cvInstance: "null" | "cv"
  ocvLoadingPromise,\* loadingPromise
  ocvLoadError,   \* loadError: "null" or the message
  ocvImport,      \* the import chain: "none" | "importing" | "waitMat" | "ready" | "failed"
  ocvTimer,       \* the 60 s timer of the race: "none" | "armed" | "fired"
  ocvHooks,       \* the mounted useOpenCV hooks: [pc, isLoaded, error]
  ocvCalls,       \* the promises returned by the loadOpenCV calls
  anaOpen,        \* the analysis page is mounted
  anaStore,       \* the state of useAnalysisStore
  anaCalls        \* the runAnalysis calls made so far: [pc, wrote]

simVars == <<simPc, params, x, y, vx, vy, t, maxHeight, trajectory, simSteps, simResult>>

pvVars == <<pvPc, pvUseWorkers, pvPromise, pvLoadTimer, pvVideo, pvTracking,
            pvPhysicsCalls, pvThrown, pvWorker, pvProgress, pvRaceTimer>>

segVars == <<segPc, segTrajectory, segResult>>

fitVars == <<fitPc, fitFn, fitPoints, fitMeters, fitI, fitSums, fitVel, fitSquares, fitResult,
             fitDivByZero>>

rejVars == <<rejPc, rejPoints, rejVelocity, rejResult, rejSecond>>

physVars == <<physPc, physTrajectory, physArgs, physResult>>

dcVars == <<dcPrevious, dcLast>>

turnVars == <<turnPc, turnTrajectory, turnReleaseIndex, turnResult>>

tpVars == <<tpStep, tpScalePoints, tpRealWorldDistance, tpPixelsPerMeter, tpAnalysed,
           tpSubStep, tpCurrentTime, tpPoint1, tpPoint2, tpGroundY, tpResult>>

cvVars == <<cvModuleIsPromise, cvMat, cvCall, cvAllocated>>

crdVars == <<crdPc, crdVideo, crdScale, crdCenterScaled, crdTrajectory, crdReported, crdResult, crdPhysics>>

trkVars == <<trkPc, trkWorker, trkTotal, trkFrameNum, trkOverTime, trkExit>>

ocvVars == <<ocvStarted, ocvInstance, ocvLoadingPromise, ocvLoadError, ocvImport, ocvTimer, ocvHooks, ocvCalls>>

anaVars == <<anaOpen, anaStore, anaCalls>>

vars == <<simVars, pvVars, segVars, fitVars, rejVars, physVars, dcVars,
         turnVars, tpVars, cvVars, crdVars, trkVars, ocvVars, anaVars>>

\* The variables of the other components, which a component leaves alone.
notSim == <<pvVars, segVars, fitVars, rejVars, physVars, dcVars, turnVars,
            tpVars, cvVars, crdVars, trkVars, ocvVars, anaVars>>
notPv == <<simVars, segVars, fitVars, rejVars, physVars, dcVars, turnVars,
           tpVars, cvVars, crdVars, trkVars, ocvVars, anaVars>>
notSeg == <<simVars, pvVars, fitVars, rejVars, physVars, dcVars, turnVars,
            tpVars, cvVars, crdVars, trkVars, ocvVars, anaVars>>
notFit == <<simVars, pvVars, segVars, rejVars, physVars, dcVars, turnVars,
            tpVars, cvVars, crdVars, trkVars, ocvVars, anaVars>>
notRej == <<simVars, pvVars, segVars, fitVars, physVars, dcVars, turnVars,
            tpVars, cvVars, crdVars, trkVars, ocvVars, anaVars>>

notPhys == <<simVars, pvVars, segVars, fitVars, rejVars, dcVars, turnVars,
             tpVars, cvVars, crdVars, trkVars, ocvVars, anaVars>>

notDc == <<simVars, pvVars, segVars, fitVars, rejVars, physVars, turnVars,
           tpVars, cvVars, crdVars, trkVars, ocvVars, anaVars>>

notTurn == <<simVars, pvVars, segVars, fitVars, rejVars, physVars, dcVars,
             tpVars, cvVars, crdVars, trkVars, ocvVars, anaVars>>

notTp == <<simVars, pvVars, segVars, fitVars, rejVars, physVars, dcVars,
           turnVars, cvVars, crdVars, trkVars, ocvVars, anaVars>>

notCv == <<simVars, pvVars, segVars, fitVars, rejVars, physVars, dcVars,
           turnVars, tpVars, crdVars, trkVars, ocvVars, anaVars>>

notCrd == <<simVars, pvVars, segVars, fitVars, rejVars, physVars, dcVars,
            turnVars, tpVars, cvVars, trkVars, ocvVars, anaVars>>

notTrk == <<simVars, pvVars, segVars, fitVars, rejVars, physVars, dcVars,
            turnVars, tpVars, cvVars, crdVars, ocvVars, anaVars>>

notOcv == <<simVars, pvVars, segVars, fitVars, rejVars, physVars, dcVars,
            turnVars, tpVars, cvVars, crdVars, trkVars, anaVars>>

notAna == <<simVars, pvVars, segVars, fitVars, rejVars, physVars, dcVars,
            turnVars, tpVars, cvVars, crdVars, trkVars, ocvVars>>

(***************************************************************************)
(* Numeric helpers                                                         *)
(***************************************************************************)
Abs(a) == IF a >= 0 THEN a ELSE -a

\* Division rounded to nearest, symmetric in sign.
RoundDiv(a, b) == IF a >= 0 THEN (a + b \div 2) \div b ELSE -((-a + b \div 2) \div b)

\* Division truncated toward zero.
TruncDiv(a, b) == IF a >= 0 THEN a \div b ELSE -((-a) \div b)

RECURSIVE SqrtIter(_, _)
SqrtIter(n, g) ==
  LET h == (g + n \div g) \div 2
  IN IF h >= g THEN g ELSE SqrtIter(n, h)

\* Math.sqrt on a non-negative integer, rounded down.
ISqrt(n) == IF n <= 0 THEN 0 ELSE SqrtIter(n, n)

\* A JavaScript number that may be NaN.
Num(n) == [nan |-> FALSE, v |-> n]
NaN == [nan |-> TRUE, v |-> 0]

\* a > b in JavaScript: false as soon as one side is NaN.
NumGt(a, b) == ~a.nan /\ ~b.nan /\ a.v > b.v

NumAdd(a, b) == IF a.nan \/ b.nan THEN NaN ELSE Num(a.v + b.v)

NumNeg(a) == IF a.nan THEN NaN ELSE Num(-a.v)

(***************************************************************************)
(* JavaScript numbers of the velocity fit: IEEE-754 binary64, round to     *)
(* nearest, ties to even.  A number is sign * mantissa * 2^exponent with a *)
(* 53 bit mantissa; the mantissa is a natural number kept as a sequence of *)
(* 15 bit limbs, least significant first, without leading zero limbs.      *)
(* The fit never leaves the normal range, so there are no subnormals and   *)
(* no overflow; zero carries no sign.                                      *)
(***************************************************************************)
LIMB_BITS == 15
LIMB == 2^LIMB_BITS
DBL_BITS == 53
DBL_LIMBS == 4

\* The value of a set of one element: Only({F(v) : v \in {e}}) is F(e), with
\* e computed once, before F.
Only(S) == CHOOSE v \in S : TRUE

BLimb(a, i) == IF i >= 1 /\ i <= Len(a) THEN a[i] ELSE 0

\* a without its leading zero limbs.
BNorm(a) ==
  LET nz == {i \in 1..Len(a) : a[i] # 0}
  IN IF nz = {} THEN <<>>
     ELSE SubSeq(a, 1, CHOOSE i \in nz : \A j \in nz : j <= i)

\* Limbs i and up of a + b + c, for a carry c into limb i.
RECURSIVE BAddFrom(_, _, _, _)
BAddFrom(a, b, i, c) ==
  IF i > Len(a) /\ i > Len(b) THEN (IF c = 0 THEN <<>> ELSE <<c>>)
  ELSE <<(BLimb(a, i) + BLimb(b, i) + c) % LIMB>>
         \o BAddFrom(a, b, i + 1, (BLimb(a, i) + BLimb(b, i) + c) \div LIMB)

\* a + b
BAdd(a, b) == BAddFrom(a, b, 1, 0)

\* Limbs i and up of a - b - c, for a borrow c from limb i and a >= b.
RECURSIVE BSubFrom(_, _, _, _)
BSubFrom(a, b, i, c) ==
  IF i > Len(a) THEN <<>>
  ELSE <<(BLimb(a, i) - BLimb(b, i) - c + LIMB) % LIMB>>
         \o BSubFrom(a, b, i + 1, IF BLimb(a, i) - BLimb(b, i) - c < 0 THEN 1 ELSE 0)

\* a - b for a >= b.
BSub(a, b) == BNorm(BSubFrom(a, b, 1, 0))

\* -1, 0, 1 as a is below, equal to, above b.
BCmp(a, b) ==
  IF Len(a) < Len(b) THEN -1
  ELSE IF Len(a) > Len(b) THEN 1
  ELSE LET diff == {i \in 1..Len(a) : a[i] # b[i]}
       IN IF diff = {} THEN 0
          ELSE IF a[CHOOSE i \in diff : \A j \in diff : j <= i]
                    < b[CHOOSE i \in diff : \A j \in diff : j <= i]
               THEN -1 ELSE 1

\* a * d for 0 <= d <= LIMB.
BMulSmall(a, d) ==
  BNorm(BAdd([i \in 1..Len(a) |-> (a[i] * d) % LIMB],
             <<0>> \o [i \in 1..Len(a) |-> (a[i] * d) \div LIMB]))

BShlLimbs(a, k) == IF a = <<>> THEN <<>> ELSE [i \in 1..k |-> 0] \o a

\* a * 2^k
BShl(a, k) == BShlLimbs(BMulSmall(a, 2^(k % LIMB_BITS)), k \div LIMB_BITS)

\* floor(a / 2^k)
BShr(a, k) ==
  LET w == k \div LIMB_BITS
      b == k % LIMB_BITS
  IN IF Len(a) <= w THEN <<>>
     ELSE BNorm([i \in 1..(Len(a) - w) |->
                   (a[i + w] \div 2^b) + (BLimb(a, i + w + 1) % 2^b) * 2^(LIMB_BITS - b)])

RECURSIVE BMul(_, _)
BMul(a, b) ==
  IF b = <<>> \/ a = <<>> THEN <<>>
  ELSE BAdd(BMulSmall(a, Head(b)), BShlLimbs(BMul(a, Tail(b)), 1))

\* The number of bits of a limb.
BitLen(n) == CHOOSE k \in 0..LIMB_BITS : n < 2^k /\ (k = 0 \/ n >= 2^(k - 1))

BBitLen(a) == IF a = <<>> THEN 0 ELSE LIMB_BITS * (Len(a) - 1) + BitLen(a[Len(a)])

BOdd(a) == a # <<>> /\ a[1] % 2 = 1

\* The limb of the quotient from the top limbs of the remainder and of the
\* divisor; it is at most 2 above the true limb.
BDivEstimate(d, r2) ==
  IF Len(r2) < Len(d) THEN 0
  ELSE IF Len(r2) = Len(d) THEN r2[Len(d)] \div d[Len(d)]
  ELSE (r2[Len(d) + 1] * LIMB + r2[Len(d)]) \div d[Len(d)]

\* The largest q with d * q <= r2, given hi with q <= hi <= q + 2.
BDivDigit(d, r2, hi) ==
  IF BCmp(BMulSmall(d, hi), r2) <= 0 THEN hi
  ELSE IF BCmp(BMulSmall(d, hi - 1), r2) <= 0 THEN hi - 1
  ELSE hi - 2

BDivStepOf(d, r2, q) == <<q, BSub(r2, BMulSmall(d, q))>>

BDivStepFor(d, r2, est) ==
  BDivStepOf(d, r2, BDivDigit(d, r2, IF est > LIMB - 1 THEN LIMB - 1 ELSE est))

\* One step of long division by d, whose top limb has its top bit set: a
\* zero limb of the dividend is brought down into the remainder r < d.
\* <<limb of the quotient, remainder>>
BDivStep(d, r) ==
  Only({BDivStepFor(d, r2, BDivEstimate(d, r2)) : r2 \in {BShlLimbs(r, 1)}})

RECURSIVE BDivLimbs(_, _, _)

BDivJoin(q, rest) == <<Append(rest[1], q), rest[2]>>

BDivPush(d, step, k) == BDivJoin(step[1], BDivLimbs(d, step[2], k - 1))

\* k steps of long division from the remainder r:
\* <<the k limbs of the quotient, least significant first, remainder>>
BDivLimbs(d, r, k) ==
  IF k = 0 THEN <<<<>>, r>>
  ELSE Only({BDivPush(d, step, k) : step \in {BDivStep(d, r)}})

BDivFrom(q0, n, d) ==
  BDivJoin(q0, BDivLimbs(d, IF q0 = 1 THEN BSub(n, d) ELSE n, DBL_LIMBS))

\* n * LIMB^DBL_LIMBS divided by d, for d <= 2 * n and n < 2 * d:
\* <<limbs of the quotient, remainder>>
BDivLong(n, d) == BDivFrom(IF BCmp(n, d) >= 0 THEN 1 ELSE 0, n, d)

\* Twice the quotient, plus one when there is a remainder.
BSticky(qr) == BAdd(BMulSmall(BNorm(qr[1]), 2), IF qr[2] = <<>> THEN <<>> ELSE <<1>>)

DZero == [s |-> 1, m |-> <<>>, e |-> 0]

\* sgn * q * 2^ex for a q of 53 bits, or of 54 after a carry.
DPack(sgn, q, ex) ==
  IF BBitLen(q) > DBL_BITS
  THEN [s |-> sgn, m |-> BShr(q, 1), e |-> ex + 1]
  ELSE [s |-> sgn, m |-> q, e |-> ex]

\* q, or q + 1 when the bits cut off are more than half a unit (cmp > 0) or
\* exactly half a unit (cmp = 0) and q is odd.
BRoundUp(q, cmp) == IF cmp > 0 \/ (cmp = 0 /\ BOdd(q)) THEN BAdd(q, <<1>>) ELSE q

\* mag has k bits too many; q is mag without them.
DRoundCut(sgn, mag, ex, k, q) ==
  DPack(sgn, BRoundUp(q, BCmp(BSub(mag, BShl(q, k)), BShl(<<1>>, k - 1))), ex + k)

\* mag has nb bits.
DRoundBits(sgn, mag, ex, nb) ==
  IF nb <= DBL_BITS
  THEN [s |-> sgn, m |-> BShl(mag, DBL_BITS - nb), e |-> ex - (DBL_BITS - nb)]
  ELSE DRoundCut(sgn, mag, ex, nb - DBL_BITS, BShr(mag, nb - DBL_BITS))

\* The double nearest to sgn * mag * 2^ex (ties to even).
DRound(sgn, mag, ex) ==
  IF mag = <<>> THEN DZero ELSE DRoundBits(sgn, mag, ex, BBitLen(mag))

DIsZero(a) == a.m = <<>>

DNeg(a) == IF DIsZero(a) THEN a ELSE [a EXCEPT !.s = -a.s]

DAbs(a) == [a EXCEPT !.s = 1]

\* sa * ma * 2^lo + sb * mb * 2^lo
DAddAligned(sa, ma, sb, mb, lo) ==
  DRound(IF sa = sb \/ BCmp(ma, mb) >= 0 THEN sa ELSE sb,
         IF sa = sb THEN BAdd(ma, mb)
         ELSE IF BCmp(ma, mb) >= 0 THEN BSub(ma, mb)
         ELSE BSub(mb, ma),
         lo)

DAddAt(a, b, lo) ==
  DAddAligned(a.s, BShl(a.m, a.e - lo), b.s, BShl(b.m, b.e - lo), lo)

\* a + b
DAdd(a, b) ==
  IF DIsZero(a) THEN b
  ELSE IF DIsZero(b) THEN a
  ELSE IF a.e - b.e > DBL_BITS + 2 THEN a
  ELSE IF b.e - a.e > DBL_BITS + 2 THEN b
  ELSE DAddAt(a, b, IF a.e < b.e THEN a.e ELSE b.e)

\* a - b
DSub(a, b) == DAdd(a, DNeg(b))

\* a * b
DMul(a, b) ==
  IF DIsZero(a) \/ DIsZero(b) THEN DZero
  ELSE DRound(a.s * b.s, BMul(a.m, b.m), a.e + b.e)

\* a / b for b # 0: long division of the mantissa of a, followed by four
\* zero limbs, by the mantissa of b (both scaled to set the top bit of the
\* top limb); a remainder is kept as one more low bit.
DDiv(a, b) ==
  IF DIsZero(a) \/ DIsZero(b) THEN DZero
  ELSE DRound(a.s * b.s,
              BSticky(BDivLong(BMulSmall(a.m, 2^(DBL_LIMBS * LIMB_BITS - DBL_BITS)),
                               BMulSmall(b.m, 2^(DBL_LIMBS * LIMB_BITS - DBL_BITS)))),
              a.e - b.e - DBL_LIMBS * LIMB_BITS - 1)

\* a < b
DLt(a, b) == DSub(a, b).s = -1

\* The double of an integer below LIMB * LIMB in magnitude.
DInt(k) ==
  DRound(IF k < 0 THEN -1 ELSE 1,
         BNorm(<<Abs(k) % LIMB, Abs(k) \div LIMB>>), 0)

(***************************************************************************)
(* physics.ts : constants                                                  *)
(***************************************************************************)
\* G = 9.81 m/s^2, in mm/s^2 (so that G * ms = um/s).
G == 9810
\* RHO_AIR = 1.225 kg/m^3, in g/m^3.
RHO_AIR == 1225
\* DRAG_COEFFICIENT = 0.62, in hundredths.
DRAG_COEFFICIENT == 62
\* TIME_STEP = 0.001 s, in ms.
TIME_STEP == 1
\* The loop's time cap, while (... && t < 10), in ms.
TIME_CAP == 10000
\* Math.PI as the rational 355 / 113.
PiNum == 355
PiDen == 113

\* calculateArea(diameterMm): pi * (d / 2000)^2 m^2, here in mm^2.
calculateArea(diameterMm) == (PiNum * diameterMm * diameterMm) \div (PiDen * 4)

\* 0.5 * RHO_AIR * DRAG_COEFFICIENT * area / massKg, the factor k of
\* dragAccel = k * v^2, in units of 1e-7 / m (mass in grams).
DragFactor(massG, diameterMm) ==
  (((RHO_AIR * DRAG_COEFFICIENT) \div 2) * calculateArea(diameterMm)) \div (10 * massG)

\* v = Math.sqrt(vx * vx + vy * vy), in cm/s.
Speed(ux, uy) ==
  IF ux.nan \/ uy.nan THEN NaN
  ELSE Num(ISqrt(TruncDiv(ux.v, 10000) * TruncDiv(ux.v, 10000)
                 + TruncDiv(uy.v, 10000) * TruncDiv(uy.v, 10000)))

\* (dragAccel * c) / v * TIME_STEP for a velocity component c, in um/s.
\* dragAccel = k v^2, so the quotient is k * v * c when v # 0.  When the
\* speed is exactly zero the code evaluates (0 * 0) / 0, which is NaN.
DragStep(ux, uy, c, massG, diameterMm) ==
  IF ux.nan \/ uy.nan \/ c.nan THEN NaN
  ELSE IF ux.v = 0 /\ uy.v = 0 THEN NaN
  ELSE Num(TruncDiv(TruncDiv(Speed(ux, uy).v * TruncDiv(c.v, 1000), 10000)
                     * DragFactor(massG, diameterMm) * TIME_STEP, 100000))

\* c * TIME_STEP for a velocity c (um/s), as a displacement in um.
Displacement(c) == IF c.nan THEN NaN ELSE Num(RoundDiv(c.v * TIME_STEP, 1000))

\* Mutant of LoopCond: the time cap is forgotten.
LoopCondNoCap(yy, tt) == NumGt(yy, Num(0))

\* The while condition: y > 0 && t < 10.
LoopCond(yy, tt) == NumGt(yy, Num(0)) /\ tt < TIME_CAP

NoResult == [none |-> TRUE]

Sample(sx, sy, st) == [x |-> sx, y |-> sy, t |-> st]

\* The inputs the simulator is run on: <<vx0, vy0 (um/s), releaseHeight (um),
\* mass (g), diameter (mm)>>.
SimInputs ==
  { [vx0 |-> 20000000, vy0 |-> 20000000, releaseHeight |-> 1800000, massG |-> 7260, diameterMm |-> 110],
    [vx0 |-> 18000000, vy0 |-> 16000000, releaseHeight |-> 1500000, massG |-> 4000, diameterMm |-> 95],
    [vx0 |-> 5000000,  vy0 |-> 60000000, releaseHeight |-> 2000000, massG |-> 7260, diameterMm |-> 110],
    [vx0 |-> 3000000,  vy0 |-> -2000000, releaseHeight |-> 500000,  massG |-> 7260, diameterMm |-> 110],
    [vx0 |-> 0,        vy0 |-> 0,        releaseHeight |-> 1200000, massG |-> 7260, diameterMm |-> 110],
    [vx0 |-> 10000000, vy0 |-> 5000000,  releaseHeight |-> 0,       massG |-> 4000, diameterMm |-> 95],
    [vx0 |-> 0,        vy0 |-> 0,        releaseHeight |-> 0,       massG |-> 7260, diameterMm |-> 110] }

(***************************************************************************)
(* physics.ts : calculateThrowWithDrag                                     *)
(***************************************************************************)
\* Lines 48-59: the state before the loop.
SimInit ==
  /\ params \in SimInputs
  /\ simPc = "loop"
  /\ x = Num(0)
  /\ y = Num(params.releaseHeight)
  /\ vx = Num(params.vx0)
  /\ vy = Num(params.vy0)
  /\ t = 0
  /\ maxHeight = Num(params.releaseHeight)
  /\ trajectory = <<Sample(Num(0), Num(params.releaseHeight), 0)>>
  /\ simSteps = 0
  /\ simResult = NoResult

\* The simulator is not running (the state of the other components' runs).
SimIdle ==
  /\ simPc = "idle"
  /\ params = [vx0 |-> 0, vy0 |-> 0, releaseHeight |-> 0, massG |-> 0, diameterMm |-> 0]
  /\ x = Num(0) /\ y = Num(0) /\ vx = Num(0) /\ vy = Num(0)
  /\ t = 0
  /\ maxHeight = Num(0)
  /\ trajectory = <<>>
  /\ simSteps = 0
  /\ simResult = NoResult

\* Lines 61-82: one iteration of the integration loop.
SimStep ==
  /\ simPc = "loop"
  /\ LoopCond(y, t)
  /\ LET dragX == DragStep(vx, vy, vx, params.massG, params.diameterMm)
         dragY == DragStep(vx, vy, vy, params.massG, params.diameterMm)
         nvx == NumAdd(vx, NumNeg(dragX))
         nvy == NumAdd(vy, NumAdd(Num(-(G * TIME_STEP)), NumNeg(dragY)))
         nx == NumAdd(x, Displacement(nvx))
         ny == NumAdd(y, Displacement(nvy))
         nt == t + TIME_STEP
     IN /\ vx' = nvx
        /\ vy' = nvy
        /\ x' = nx
        /\ y' = ny
        /\ t' = nt
        /\ maxHeight' = IF NumGt(ny, maxHeight) THEN ny ELSE maxHeight
        /\ trajectory' = IF Len(trajectory) % 100 = 0
                         THEN Append(trajectory, Sample(nx, ny, nt))
                         ELSE trajectory
  /\ simSteps' = simSteps + 1
  /\ UNCHANGED <<simPc, params, simResult>>
  /\ UNCHANGED notSim

\* Mutant of FinalSample: the last integration state is pushed as it is.
FinalSampleRaw(sx, sy, st) == Sample(sx, sy, st)

\* The sample pushed after the loop (line 84).
FinalSample(sx, sy, st) == Sample(sx, Num(0), st)

\* Lines 84-94: the loop has ended; push the landing sample and return.
SimFinish ==
  /\ simPc = "loop"
  /\ ~LoopCond(y, t)
  /\ trajectory' = Append(trajectory, FinalSample(x, y, t))
  /\ simResult' = [distance |-> x,
                   flightTime |-> t,
                   maxHeight |-> maxHeight,
                   landingVelocity |-> Speed(vx, vy),
                   trajectory |-> Append(trajectory, FinalSample(x, y, t))]
  /\ simPc' = "done"
  /\ UNCHANGED <<params, x, y, vx, vy, t, maxHeight, simSteps>>
  /\ UNCHANGED notSim

NextSim == SimStep \/ SimFinish

(***************************************************************************)
(* video-processor.ts : processVideo                                       *)
(***************************************************************************)
ErrLoadTimeout == "Video load timeout - took longer than 30 seconds"
ErrTooLong == "Video too long. Please use a video under 2 minutes."
ErrTrackingTimeout == "Video processing timeout - took longer than 5 minutes"
ErrNoAnchor == "Could not detect release or landing point"
ErrLoadFailed == "Failed to load video for processing"
ErrTrackingFailed == "tracking failed"
ErrPhysicsWorker == "Physics worker error"
ErrPhysicsFailed == "physics failed"

\* What trackFn can settle with: a TrackingResult (hammer-tracker.ts lines
\* 10-15), each anchor a point or null.
TrackingResults ==
  [returned : {TRUE}, releasePoint : {"null", "point"}, landingPoint : {"null", "point"}]

NoTracking == [returned |-> FALSE, releasePoint |-> "null", landingPoint |-> "null"]

\* The errors a rejected tracking promise can carry (hammer-tracker.ts: a
\* seek timeout, a worker error, its own 5 minute check).
TrackingErrors == {ErrTrackingFailed, ErrTrackingTimeout}

\* Progress values the tracker reports through its callback (percent).
TrackerProgress == {0, 50, 100}

Pending == [state |-> "pending", value |-> "none"]

\* resolve(v) / reject(e) on the promise: only the first settlement counts.
Settle(p, st, v) == IF p.state = "pending" THEN [state |-> st, value |-> v] ELSE p

\* Lines 74-92: processVideo has created the video element, armed the 30 s
\* timer and returned the pending promise.
PvInit ==
  /\ pvPc = "loading"
  /\ pvUseWorkers \in BOOLEAN
  /\ pvPromise = Pending
  /\ pvLoadTimer = "armed"
  /\ pvVideo = "live"
  /\ pvTracking = NoTracking
  /\ pvPhysicsCalls = 0
  /\ pvThrown = "none"
  /\ pvWorker = "none"
  /\ pvProgress = 0
  /\ pvRaceTimer = "none"

\* processVideo is not running.
PvIdle ==
  /\ pvPc = "idle"
  /\ pvUseWorkers = FALSE
  /\ pvPromise = Pending
  /\ pvLoadTimer = "cleared"
  /\ pvVideo = "removed"
  /\ pvTracking = NoTracking
  /\ pvPhysicsCalls = 0
  /\ pvThrown = "none"
  /\ pvWorker = "none"
  /\ pvProgress = 0
  /\ pvRaceTimer = "none"

\* Lines 210-214: the handler's catch block.
PvCatch(err) ==
  /\ pvThrown' = err
  /\ pvVideo' = "removed"
  /\ pvPromise' = Settle(pvPromise, "rejected", err)
  /\ pvPc' = "returned"

\* Lines 188-209: the tail of the handler once physicsResult is known.
PvResolve ==
  /\ pvProgress' = 100
  /\ pvVideo' = "removed"
  /\ pvPromise' = Settle(pvPromise, "resolved", "HammerThrowResult")
  /\ pvPc' = "returned"

\* Lines 83-87: the 30 s load timer fires.
PvLoadTimeout ==
  /\ pvLoadTimer = "armed"
  /\ pvLoadTimer' = "fired"
  /\ pvVideo' = "removed"
  /\ pvPromise' = Settle(pvPromise, "rejected", ErrLoadTimeout)
  /\ UNCHANGED <<pvPc, pvUseWorkers, pvTracking, pvPhysicsCalls, pvThrown, pvWorker,
                 pvProgress, pvRaceTimer>>
  /\ UNCHANGED notPv

\* Lines 217-221: video.onerror, whenever the element reports an error.
PvVideoError ==
  /\ pvVideo = "live"
  /\ pvLoadTimer' = IF pvLoadTimer = "armed" THEN "cleared" ELSE pvLoadTimer
  /\ pvVideo' = "removed"
  /\ pvPromise' = Settle(pvPromise, "rejected", ErrLoadFailed)
  /\ UNCHANGED <<pvPc, pvUseWorkers, pvTracking, pvPhysicsCalls, pvThrown, pvWorker,
                 pvProgress, pvRaceTimer>>
  /\ UNCHANGED notPv

\* Lines 94-142: video.onloadedmetadata up to the await of the race.
PvLoadedMetadata ==
  /\ pvPc = "loading"
  /\ pvVideo = "live"
  /\ pvLoadTimer' = IF pvLoadTimer = "armed" THEN "cleared" ELSE pvLoadTimer
  /\ \E tooLong \in BOOLEAN :
       IF tooLong
       THEN PvCatch(ErrTooLong) /\ UNCHANGED <<pvProgress, pvRaceTimer>>
       ELSE /\ pvProgress' = 10
            /\ pvRaceTimer' = "armed"
            /\ pvPc' = "tracking"
            /\ UNCHANGED <<pvThrown, pvVideo, pvPromise>>
  /\ UNCHANGED <<pvUseWorkers, pvTracking, pvPhysicsCalls, pvWorker>>
  /\ UNCHANGED notPv

\* Lines 120-122: the progress callback handed to the tracker.
PvTrackingProgress ==
  /\ pvPc = "tracking"
  /\ \E p \in TrackerProgress : pvProgress' = 10 + (p * 6) \div 10
  /\ UNCHANGED <<pvPc, pvUseWorkers, pvPromise, pvLoadTimer, pvVideo, pvTracking,
                 pvPhysicsCalls, pvThrown, pvWorker, pvRaceTimer>>
  /\ UNCHANGED notPv

\* Mutant of MissingAnchor: only the release point is checked.
MissingAnchorReleaseOnly(res) == res.releasePoint = "null"

\* Lines 147-149: the anchor check.
MissingAnchor(res) == res.releasePoint = "null" \/ res.landingPoint = "null"

\* Lines 139-186: the race is won by the tracker; the handler checks the
\* anchors and either throws, posts the job to the physics worker, or
\* computes the physics on the main thread and resolves.
PvTrackingResolves ==
  /\ pvPc = "tracking"
  /\ \E res \in TrackingResults :
       /\ pvTracking' = res
       /\ IF MissingAnchor(res)
          THEN /\ PvCatch(ErrNoAnchor)
               /\ pvProgress' = 70
               /\ UNCHANGED <<pvPhysicsCalls, pvWorker>>
          ELSE IF pvUseWorkers
          THEN /\ pvProgress' = 80
               /\ pvWorker' = "posted"
               /\ pvPc' = "physics"
               /\ UNCHANGED <<pvPhysicsCalls, pvThrown, pvVideo, pvPromise>>
          ELSE /\ pvPhysicsCalls' = pvPhysicsCalls + 1
               /\ PvResolve
               /\ UNCHANGED <<pvThrown, pvWorker>>
  /\ UNCHANGED <<pvUseWorkers, pvLoadTimer, pvRaceTimer>>
  /\ UNCHANGED notPv

\* Lines 139-142, 210-214: the tracking promise rejects and the race with it.
PvTrackingRejects ==
  /\ pvPc = "tracking"
  /\ \E err \in TrackingErrors : PvCatch(err)
  /\ UNCHANGED <<pvUseWorkers, pvLoadTimer, pvTracking, pvPhysicsCalls, pvWorker,
                 pvProgress, pvRaceTimer>>
  /\ UNCHANGED notPv

\* Lines 124-136: the 5 minute timer fires (it is never cleared).  While the
\* race is pending it rejects it and the handler's catch runs; later the
\* rejection of the settled race has no effect.
PvRaceTimeout ==
  /\ pvRaceTimer = "armed"
  /\ pvRaceTimer' = "fired"
  /\ IF pvPc = "tracking"
     THEN PvCatch(ErrTrackingTimeout)
     ELSE UNCHANGED <<pvThrown, pvVideo, pvPromise, pvPc>>
  /\ UNCHANGED <<pvUseWorkers, pvLoadTimer, pvTracking, pvPhysicsCalls, pvWorker, pvProgress>>
  /\ UNCHANGED notPv

\* physics.worker.ts lines 8-43: the worker handles the 'calculate' message.
PvWorkerCalculates ==
  /\ pvWorker = "posted"
  /\ pvPhysicsCalls' = pvPhysicsCalls + 1
  /\ \E outcome \in {"result", "error"} : pvWorker' = outcome
  /\ UNCHANGED <<pvPc, pvUseWorkers, pvPromise, pvLoadTimer, pvVideo, pvTracking,
                 pvThrown, pvProgress, pvRaceTimer>>
  /\ UNCHANGED notPv

\* Lines 49-56, 173, 188-209: worker.onmessage and the handler's continuation.
PvWorkerMessage ==
  /\ pvWorker \in {"result", "error"}
  /\ pvWorker' = "terminated"
  /\ IF pvWorker = "result"
     THEN PvResolve /\ UNCHANGED pvThrown
     ELSE PvCatch(ErrPhysicsFailed) /\ UNCHANGED pvProgress
  /\ UNCHANGED <<pvUseWorkers, pvLoadTimer, pvTracking, pvPhysicsCalls, pvRaceTimer>>
  /\ UNCHANGED notPv

\* Lines 58-61: worker.onerror.
PvWorkerError ==
  /\ pvWorker = "posted"
  /\ pvWorker' = "terminated"
  /\ PvCatch(ErrPhysicsWorker)
  /\ UNCHANGED <<pvUseWorkers, pvLoadTimer, pvTracking, pvPhysicsCalls, pvProgress, pvRaceTimer>>
  /\ UNCHANGED notPv

NextPv ==
  \/ PvLoadTimeout
  \/ PvVideoError
  \/ PvLoadedMetadata
  \/ PvTrackingProgress
  \/ PvTrackingResolves
  \/ PvTrackingRejects
  \/ PvRaceTimeout
  \/ PvWorkerCalculates
  \/ PvWorkerMessage
  \/ PvWorkerError

(***************************************************************************)
(* tracking.worker.ts / hammer-tracker.ts : detectReleaseAndLanding        *)
(* (the same algorithm in tracking.worker.ts lines 189-234 and 560-601 and *)
(* in hammer-tracker.ts lines 377-424 and 578-628)                         *)
(***************************************************************************)
\* Longest trajectory explored, and the number of times the tracked point
\* may change its per-frame displacement along one trajectory.
SegMaxPoints == 21
SegMaxChanges == 2

\* if (trajectory.length < 10)
SEG_MIN_POINTS == 10
\* Window of the release scan (slice(i - 5, i), slice(i, i + 5), / 5).
RELEASE_WINDOW == 5
\* Landing scan: starts at releaseIndex + 10, averages 3 speeds, stops below 2.
LANDING_OFFSET == 10
LANDING_WINDOW == 3
STOPPED_SPEED == 2

\* Per-frame displacements of the tracked point, in pixels; their lengths
\* (1, 2 and 10) are exact.
StepVectors == {<<1, 0>>, <<0, 2>>, <<6, 8>>}

Point(px, py) == [x |-> px, y |-> py]
NullPoint == [null |-> TRUE]

\* The displacement between consecutive points k and k + 1 (1-based).
StepOf(traj, k) == <<traj[k + 1].x - traj[k].x, traj[k + 1].y - traj[k].y>>

\* How often the displacement changes along the trajectory.
Changes(traj) ==
  Cardinality({k \in 1..(Len(traj) - 2) : StepOf(traj, k) # StepOf(traj, k + 1)})

\* velocities: velocities[i] (0-based in the code) is kept at position i + 1.
Velocities(traj) ==
  [k \in 1..(Len(traj) - 1) |->
     ISqrt((traj[k + 1].x - traj[k].x) * (traj[k + 1].x - traj[k].x)
           + (traj[k + 1].y - traj[k].y) * (traj[k + 1].y - traj[k].y))]

\* velocities.slice(a, b).reduce((p, q) => p + q, 0), 0-based a and b.
RECURSIVE SliceSum(_, _, _)
SliceSum(vel, a, b) ==
  IF a >= b \/ a >= Len(vel) THEN 0
  ELSE (IF a >= 0 THEN vel[a + 1] ELSE 0) + SliceSum(vel, a + 1, b)

\* increase = avgAfter - avgBefore, as a number of fifths.
Increase(vel, i) ==
  SliceSum(vel, i, i + RELEASE_WINDOW) - SliceSum(vel, i - RELEASE_WINDOW, i)

\* Mutant of ReleaseScan: the loop runs up to the last speed.
RECURSIVE ReleaseScanToEnd(_, _, _, _)
ReleaseScanToEnd(vel, i, releaseIndex, maxIncrease) ==
  IF ~(i < Len(vel)) THEN releaseIndex
  ELSE IF Increase(vel, i) > maxIncrease
       THEN ReleaseScanToEnd(vel, i + 1, i, Increase(vel, i))
       ELSE ReleaseScanToEnd(vel, i + 1, releaseIndex, maxIncrease)

\* The release loop from index i on; its value is the final releaseIndex.
RECURSIVE ReleaseScan(_, _, _, _)
ReleaseScan(vel, i, releaseIndex, maxIncrease) ==
  IF ~(i < Len(vel) - RELEASE_WINDOW) THEN releaseIndex
  ELSE IF Increase(vel, i) > maxIncrease
       THEN ReleaseScan(vel, i + 1, i, Increase(vel, i))
       ELSE ReleaseScan(vel, i + 1, releaseIndex, maxIncrease)

ReleaseIndex(traj) == ReleaseScan(Velocities(traj), RELEASE_WINDOW, 0, 0)

\* The landing loop from index i on; n is trajectory.length.
RECURSIVE LandingScan(_, _, _)
LandingScan(vel, i, n) ==
  IF ~(i < Len(vel) - LANDING_WINDOW) THEN n - 1
  ELSE IF SliceSum(vel, i, i + LANDING_WINDOW) < STOPPED_SPEED * LANDING_WINDOW
       THEN i
       ELSE LandingScan(vel, i + 1, n)

LandingIndex(traj) ==
  LandingScan(Velocities(traj), ReleaseIndex(traj) + LANDING_OFFSET, Len(traj))

\* trajectory[i] || null
At(traj, i) == IF i >= 0 /\ i < Len(traj) THEN traj[i + 1] ELSE NullPoint

\* Mutant of TooShort: the guard is off by one.
TooShortOffByOne(traj) == Len(traj) < SEG_MIN_POINTS - 1

\* if (trajectory.length < 10)
TooShort(traj) == Len(traj) < SEG_MIN_POINTS

\* detectReleaseAndLanding(trajectory); landingIndex is the local variable
\* of that name at the return.
detectReleaseAndLanding(traj) ==
  IF TooShort(traj)
  THEN [releasePoint |-> NullPoint, landingPoint |-> NullPoint, releaseFrame |-> 0,
        landingIndex |-> -1]
  ELSE [releasePoint |-> At(traj, ReleaseIndex(traj)),
        landingPoint |-> At(traj, LandingIndex(traj)),
        releaseFrame |-> ReleaseIndex(traj),
        landingIndex |-> LandingIndex(traj)]

NoSegResult == [none |-> TRUE]

\* The worker after 'init': state.trajectory = [].
SegInit ==
  /\ segPc = "tracking"
  /\ segTrajectory = <<>>
  /\ segResult = NoSegResult

\* The tracking worker is not running.
SegIdle ==
  /\ segPc = "idle"
  /\ segTrajectory = <<>>
  /\ segResult = NoSegResult

\* handleProcessFrame: a tracked point is pushed onto state.trajectory (a
\* frame in which nothing is tracked pushes nothing).
SegProcessFrame ==
  /\ segPc = "tracking"
  /\ Len(segTrajectory) < SegMaxPoints
  /\ \E p \in IF segTrajectory = <<>>
              THEN {Point(0, 0)}
              ELSE {Point(segTrajectory[Len(segTrajectory)].x + s[1],
                          segTrajectory[Len(segTrajectory)].y + s[2]) : s \in StepVectors} :
       /\ Changes(Append(segTrajectory, p)) <= SegMaxChanges
       /\ segTrajectory' = Append(segTrajectory, p)
  /\ UNCHANGED <<segPc, segResult>>
  /\ UNCHANGED notSeg

\* handleDetectReleaseLanding (tracking.worker.ts lines 603-614).
SegDetectReleaseLanding ==
  /\ segPc = "tracking"
  /\ segResult' = detectReleaseAndLanding(segTrajectory)
  /\ segPc' = "done"
  /\ UNCHANGED segTrajectory
  /\ UNCHANGED notSeg

NextSeg == SegProcessFrame \/ SegDetectReleaseLanding

(***************************************************************************)
(* velocityFit.ts : fitVelocity  and  physics.ts : fitVelocityFromPositions *)
(***************************************************************************)
\* Longest regression window explored.
FitMaxPoints == 3
\* Calibration and frame rate of the explored videos.
FitPixelsPerMeter == 100
FitFps == 30
\* Frames and pixel positions of the tracked points of a window.
FitFrames == {0, 1, 2}
FitPositions == {<<100, 200>>, <<110, 205>>}

\* if (n < 2) return null;
FIT_MIN_POINTS == 2
\* if (positions.length < 3)
FIT_POSITIONS_MIN_POINTS == 3

\* 1e-10
DENOMINATOR_EPSILON == DDiv(DInt(1), DMul(DInt(100000), DInt(100000)))

NoFit == [none |-> TRUE]
\* return null
FitNull == [null |-> TRUE]
\* return { vx: 0, vy: 0, confidence: 0 }
ZeroEstimate == [vx |-> DZero, vy |-> DZero, confidence |-> DZero]

ZeroSums ==
  [sumT |-> DZero, sumTT |-> DZero, sumX |-> DZero, sumXT |-> DZero,
   sumY |-> DZero, sumYT |-> DZero]

ZeroSquares == [ssResX |-> DZero, ssTotX |-> DZero, ssResY |-> DZero, ssTotY |-> DZero]

NoVelocity == [none |-> TRUE]

\* A tracked point in metres and seconds: x / pixelsPerMeter,
\* y / pixelsPerMeter, frame / fps.
Meters(p) ==
  [x |-> DDiv(DInt(p.x), DInt(FitPixelsPerMeter)),
   y |-> DDiv(DInt(p.y), DInt(FitPixelsPerMeter)),
   t |-> DDiv(DInt(p.f), DInt(FitFps))]

\* Math.pow(z, 2)
DSquare(z) == DMul(z, z)

\* Math.min(a, b)
DMin(a, b) == IF DLt(b, a) THEN b ELSE a

\* n * sumTT - sumT * sumT
Denominator(n, sums) ==
  DSub(DMul(DInt(n), sums.sumTT), DMul(sums.sumT, sums.sumT))

\* (n * sumXT - sumT * sumX) / denom
Slope(n, sumT, sumP, sumPT, denom) ==
  DDiv(DSub(DMul(DInt(n), sumPT), DMul(sumT, sumP)), denom)

\* ssTot > 0 ? 1 - ssRes / ssTot : 0
RSquared(ssRes, ssTot) ==
  IF DLt(DZero, ssTot) THEN DSub(DInt(1), DDiv(ssRes, ssTot)) ELSE DZero

\* No fit is running.
FitIdle ==
  /\ fitPc = "idle"
  /\ fitFn = "none"
  /\ fitPoints = <<>>
  /\ fitMeters = <<>>
  /\ fitI = 0
  /\ fitSums = ZeroSums
  /\ fitVel = NoVelocity
  /\ fitSquares = ZeroSquares
  /\ fitResult = NoFit
  /\ fitDivByZero = FALSE

\* The window of tracked points is empty.
FitInit ==
  /\ fitPc = "window"
  /\ fitFn = "none"
  /\ fitPoints = <<>>
  /\ fitMeters = <<>>
  /\ fitI = 0
  /\ fitSums = ZeroSums
  /\ fitVel = NoVelocity
  /\ fitSquares = ZeroSquares
  /\ fitResult = NoFit
  /\ fitDivByZero = FALSE

\* One more tracked point enters the window; frames do not go back.
FitPushPoint ==
  /\ fitPc = "window"
  /\ Len(fitPoints) < FitMaxPoints
  /\ \E f \in FitFrames, pos \in FitPositions :
       /\ fitPoints # <<>> => fitPoints[Len(fitPoints)].f <= f
       /\ fitPoints' = Append(fitPoints, [x |-> pos[1], y |-> pos[2], f |-> f])
  /\ UNCHANGED <<fitPc, fitFn, fitMeters, fitI, fitSums, fitVel, fitSquares, fitResult,
                 fitDivByZero>>
  /\ UNCHANGED notFit

\* fitVelocity(points) up to its loop.
CallFitVelocity ==
  /\ fitPc = "window"
  /\ fitFn' = "fitVelocity"
  /\ IF Len(fitPoints) < FIT_MIN_POINTS
     THEN fitResult' = FitNull /\ fitPc' = "done" /\ fitMeters' = fitMeters
     ELSE /\ fitResult' = fitResult
          /\ fitPc' = "sum"
          /\ fitMeters' = [i \in 1..Len(fitPoints) |-> Meters(fitPoints[i])]
  /\ UNCHANGED <<fitPoints, fitI, fitSums, fitVel, fitSquares, fitDivByZero>>
  /\ UNCHANGED notFit

\* fitVelocityFromPositions(positions, pixelsPerMeter) up to its first loop.
CallFitVelocityFromPositions ==
  /\ fitPc = "window"
  /\ fitFn' = "fitVelocityFromPositions"
  /\ IF Len(fitPoints) < FIT_POSITIONS_MIN_POINTS
     THEN fitResult' = ZeroEstimate /\ fitPc' = "done" /\ fitMeters' = fitMeters
     ELSE /\ fitResult' = fitResult
          /\ fitPc' = "sum"
          /\ fitMeters' = [i \in 1..Len(fitPoints) |-> Meters(fitPoints[i])]
  /\ UNCHANGED <<fitPoints, fitI, fitSums, fitVel, fitSquares, fitDivByZero>>
  /\ UNCHANGED notFit

\* One iteration of the loop that accumulates the six sums.
FitSumStep ==
  /\ fitPc = "sum"
  /\ fitI < Len(fitPoints)
  /\ LET p == fitMeters[fitI + 1]
     IN fitSums' = [sumT |-> DAdd(fitSums.sumT, p.t),
                    sumTT |-> DAdd(fitSums.sumTT, DMul(p.t, p.t)),
                    sumX |-> DAdd(fitSums.sumX, p.x),
                    sumXT |-> DAdd(fitSums.sumXT, DMul(p.x, p.t)),
                    sumY |-> DAdd(fitSums.sumY, p.y),
                    sumYT |-> DAdd(fitSums.sumYT, DMul(p.y, p.t))]
  /\ fitI' = fitI + 1
  /\ UNCHANGED <<fitPc, fitFn, fitPoints, fitMeters, fitVel, fitSquares, fitResult,
                 fitDivByZero>>
  /\ UNCHANGED notFit

\* The test that ends the fit without an estimate: denom === 0 in
\* fitVelocity, Math.abs(denominator) < 1e-10 in fitVelocityFromPositions.
Degenerate(fn, denom) ==
  IF fn = "fitVelocity" THEN DIsZero(denom) ELSE DLt(DAbs(denom), DENOMINATOR_EPSILON)

\* The two slopes.
Velocity(n, sums, denom) ==
  [vx |-> Slope(n, sums.sumT, sums.sumX, sums.sumXT, denom),
   vy |-> Slope(n, sums.sumT, sums.sumY, sums.sumYT, denom)]

\* The code after the loop, for the denominator it has computed.
FitSolveWith(denom) ==
  IF Degenerate(fitFn, denom)
  THEN /\ fitResult' = IF fitFn = "fitVelocity" THEN FitNull ELSE ZeroEstimate
       /\ fitPc' = "done"
       /\ UNCHANGED <<fitVel, fitI, fitDivByZero>>
  ELSE /\ fitDivByZero' = (fitDivByZero \/ DIsZero(denom))
       /\ fitVel' = Velocity(Len(fitPoints), fitSums, denom)
       /\ IF fitFn = "fitVelocity"
          THEN fitResult' = fitVel' /\ fitPc' = "done" /\ fitI' = fitI
          ELSE fitResult' = fitResult /\ fitPc' = "r2" /\ fitI' = 0

\* After the loop: the denominator, its test, and the two slopes.
\* fitVelocity returns here; fitVelocityFromPositions goes on to R^2.
FitSolve ==
  /\ fitPc = "sum"
  /\ fitI = Len(fitPoints)
  /\ FitSolveWith(Denominator(Len(fitPoints), fitSums))
  /\ UNCHANGED <<fitFn, fitPoints, fitMeters, fitSums, fitSquares>>
  /\ UNCHANGED notFit

\* One iteration of the loop that accumulates the residual and total squares.
FitResidualStep ==
  /\ fitPc = "r2"
  /\ fitI < Len(fitPoints)
  /\ LET n == DInt(Len(fitPoints))
         p == fitMeters[fitI + 1]
         xMean == DDiv(fitSums.sumX, n)
         yMean == DDiv(fitSums.sumY, n)
         xPred == DAdd(DMul(fitVel.vx, p.t),
                       DDiv(DSub(fitSums.sumX, DMul(fitVel.vx, fitSums.sumT)), n))
         yPred == DAdd(DMul(fitVel.vy, p.t),
                       DDiv(DSub(fitSums.sumY, DMul(fitVel.vy, fitSums.sumT)), n))
     IN fitSquares' = [ssResX |-> DAdd(fitSquares.ssResX, DSquare(DSub(p.x, xPred))),
                       ssTotX |-> DAdd(fitSquares.ssTotX, DSquare(DSub(p.x, xMean))),
                       ssResY |-> DAdd(fitSquares.ssResY, DSquare(DSub(p.y, yPred))),
                       ssTotY |-> DAdd(fitSquares.ssTotY, DSquare(DSub(p.y, yMean)))]
  /\ fitI' = fitI + 1
  /\ UNCHANGED <<fitPc, fitFn, fitPoints, fitMeters, fitSums, fitVel, fitResult,
                 fitDivByZero>>
  /\ UNCHANGED notFit

\* return { vx, vy, confidence }
FitReturn ==
  /\ fitPc = "r2"
  /\ fitI = Len(fitPoints)
  /\ fitResult' = [vx |-> fitVel.vx, vy |-> fitVel.vy,
                   confidence |-> DMin(RSquared(fitSquares.ssResX, fitSquares.ssTotX),
                                       RSquared(fitSquares.ssResY, fitSquares.ssTotY))]
  /\ fitPc' = "done"
  /\ UNCHANGED <<fitFn, fitPoints, fitMeters, fitI, fitSums, fitVel, fitSquares, fitDivByZero>>
  /\ UNCHANGED notFit

NextFit ==
  \/ FitPushPoint
  \/ CallFitVelocity
  \/ CallFitVelocityFromPositions
  \/ FitSumStep
  \/ FitSolve
  \/ FitResidualStep
  \/ FitReturn

(***************************************************************************)
(* cleanTrackedPoints.ts : rejectOutliers                                  *)
(* Positions are in millimetres, times in tenths of a second and           *)
(* velocities in centimetres per second, so that velocity * time is in     *)
(* millimetres and the arithmetic is exact.                                *)
(***************************************************************************)
\* Longest list of points explored.
RejMaxPoints == 4
\* Times, positions and fitted velocities of the explored inputs.
RejTimes == {0, 1}
RejPositions == {<<0, 0>>, <<90, 120>>, <<91, 120>>, <<190, 320>>}
RejVelocities == {<<0, 0>>, <<100, 200>>}

\* maxErrorMeters = 0.15
MAX_ERROR_METERS == 150
\* if (points.length < 3) return points;
REJECT_MIN_POINTS == 3

\* Mutant of WithinError: the comparison is strict.
WithinErrorStrict(p, velocity, maxError) ==
  LET dx == p.x - velocity.vx * p.t
      dy == p.y - velocity.vy * p.t
  IN dx * dx + dy * dy < maxError * maxError

\* error <= maxErrorMeters, for error = Math.sqrt(dx * dx + dy * dy)
WithinError(p, velocity, maxError) ==
  LET dx == p.x - velocity.vx * p.t
      dy == p.y - velocity.vy * p.t
  IN dx * dx + dy * dy <= maxError * maxError

\* Mutant of RejectLoop: a point is kept when its squared error is at most
\* the mean squared error of the points given.
RejectLoopMeanError(points, velocity, maxError, i, filtered) ==
  LET sq(p) == (p.x - velocity.vx * p.t) * (p.x - velocity.vx * p.t)
               + (p.y - velocity.vy * p.t) * (p.y - velocity.vy * p.t)
      total[k \in 0..Len(points)] == IF k = 0 THEN 0 ELSE total[k - 1] + sq(points[k])
      kept == {k \in 1..Len(points) : sq(points[k]) * Len(points) <= total[Len(points)]}
      pick[k \in 0..Len(points)] ==
        IF k = 0 THEN <<>>
        ELSE IF k \in kept THEN Append(pick[k - 1], points[k]) ELSE pick[k - 1]
  IN pick[Len(points)]

\* The loop over the points from index i on; filtered is the array built so far.
RECURSIVE RejectLoop(_, _, _, _, _)
RejectLoop(points, velocity, maxError, i, filtered) ==
  IF i > Len(points) THEN filtered
  ELSE RejectLoop(points, velocity, maxError, i + 1,
                  IF WithinError(points[i], velocity, maxError)
                  THEN Append(filtered, points[i])
                  ELSE filtered)

\* if (points.length < 3)
SkipsRejection(points) == Len(points) < REJECT_MIN_POINTS

rejectOutliers(points, velocity, maxError) ==
  IF SkipsRejection(points) THEN points
  ELSE RejectLoop(points, velocity, maxError, 1, <<>>)

NoRejResult == <<[none |-> TRUE]>>

\* rejectOutliers is not running.
RejIdle ==
  /\ rejPc = "idle"
  /\ rejPoints = <<>>
  /\ rejVelocity = [vx |-> 0, vy |-> 0]
  /\ rejResult = NoRejResult
  /\ rejSecond = NoRejResult

\* The list of tracked points is empty.
RejInit ==
  /\ rejPc = "points"
  /\ rejPoints = <<>>
  /\ rejVelocity = [vx |-> 0, vy |-> 0]
  /\ rejResult = NoRejResult
  /\ rejSecond = NoRejResult

\* One more tracked point.
RejPushPoint ==
  /\ rejPc = "points"
  /\ Len(rejPoints) < RejMaxPoints
  /\ \E tt \in RejTimes, pos \in RejPositions :
       rejPoints' = Append(rejPoints, [x |-> pos[1], y |-> pos[2], t |-> tt])
  /\ UNCHANGED <<rejPc, rejVelocity, rejResult, rejSecond>>
  /\ UNCHANGED notRej

\* cleaned = rejectOutliers(tracked, initial)
RejCall ==
  /\ rejPc = "points"
  /\ \E v \in RejVelocities :
       /\ rejVelocity' = [vx |-> v[1], vy |-> v[2]]
       /\ rejResult' = rejectOutliers(rejPoints, [vx |-> v[1], vy |-> v[2]], MAX_ERROR_METERS)
  /\ rejPc' = "done"
  /\ UNCHANGED <<rejPoints, rejSecond>>
  /\ UNCHANGED notRej

\* rejectOutliers(cleaned, initial): the filter applied to its own result.
RejCallAgain ==
  /\ rejPc = "done"
  /\ rejSecond' = rejectOutliers(rejResult, rejVelocity, MAX_ERROR_METERS)
  /\ rejPc' = "again"
  /\ UNCHANGED <<rejPoints, rejVelocity, rejResult>>
  /\ UNCHANGED notRej

NextRej == RejPushPoint \/ RejCall \/ RejCallAgain

(***************************************************************************)
(* physics-engine.ts calculatePhysics: release metrics and flight time of  *)
(* a trajectory the tracker sampled every frameStep frames.  Positions are *)
(* pixels, lengths micrometres, speeds micrometres per second, times       *)
(* microseconds, angles thousandths of a degree.                           *)
(***************************************************************************)
PhysMaxPoints == 10
PhysMaxChanges == 2

\* const frameStep = 6 (hammer-tracker.ts)
PHYS_FRAME_STEP == 6
\* trajectory[releaseFrame + 3], dt = 3 / fps
VELOCITY_SAMPLES == 3
\* trajectory[releaseFrame + 2]
ANGLE_SAMPLES == 2
\* trajectory.length > releaseFrame + 5
PHYS_MIN_TRAILING == 5
\* trajectory[i + 3].y - trajectory[i].y
FLIGHT_LOOKAHEAD == 3
\* Math.abs(yChange) < 5
FLIGHT_Y_CHANGE == 5

\* Displacements of the tracked point from one sample to the next, pixels.
PhysSteps == {<<3, -4>>, <<-3, -4>>, <<5, 0>>, <<0, 5>>, <<-5, 0>>, <<0, 0>>}
PhysFps == {30}
PhysScaleFactors == {50, 100}

\* Math.atan2(dy, dx) * (180 / Math.PI), in thousandths of a degree, for
\* the displacements over two samples: <<dy, dx, angle>>.
ATAN2_MILLIDEG ==
  {<<-10, 0, -90000>>, <<-5, -5, -135000>>, <<-5, 0, -90000>>,
   <<-5, 5, -45000>>, <<-1, -3, -161565>>, <<-1, 3, -18435>>,
   <<0, -10, 180000>>, <<0, -5, 180000>>, <<0, 0, 0>>, <<0, 5, 0>>,
   <<0, 10, 0>>, <<4, -8, 153435>>, <<4, -3, 126870>>, <<4, -2, 116565>>,
   <<4, 2, 63435>>, <<4, 3, 53130>>, <<4, 8, 26565>>, <<8, -6, 126870>>,
   <<8, 0, 90000>>, <<8, 6, 53130>>}

Atan2(dy, dx) == (CHOOSE r \in ATAN2_MILLIDEG : r[1] = dy /\ r[2] = dx)[3]

\* Mutant of Reflect: angles beyond 90 degrees are left as they are.
ReflectNever(angle) == angle

\* if (releaseAngle > 90) releaseAngle = 180 - releaseAngle
Reflect(angle) == IF angle > 90000 THEN 180000 - angle ELSE angle

\* Math.sqrt(dx * dx + dy * dy) for dx and dy in pixels divided by scaleFactor.
LengthMicro(dxPixels, dyPixels, scaleFactor) ==
  (ISqrt((dxPixels * dxPixels + dyPixels * dyPixels) * 1000000) * 1000) \div scaleFactor

\* The first block of calculateReleaseMetrics.
ReleaseVelocity(traj, releaseFrame, fps, scaleFactor) ==
  IF Len(traj) > releaseFrame + PHYS_MIN_TRAILING
  THEN (LengthMicro(traj[releaseFrame + VELOCITY_SAMPLES + 1].x - traj[releaseFrame + 1].x,
                    traj[releaseFrame + VELOCITY_SAMPLES + 1].y - traj[releaseFrame + 1].y,
                    scaleFactor) * fps) \div VELOCITY_SAMPLES
  ELSE 0

\* The second block of calculateReleaseMetrics.
ReleaseAngle(traj, releaseFrame) ==
  IF Len(traj) > releaseFrame + ANGLE_SAMPLES
  THEN Reflect(Abs(Atan2(traj[releaseFrame + 1].y - traj[releaseFrame + ANGLE_SAMPLES + 1].y,
                         traj[releaseFrame + ANGLE_SAMPLES + 1].x - traj[releaseFrame + 1].x)))
  ELSE 0

\* The loop of calculateFlightTime from index i on: landingFrame.
RECURSIVE FlightScan(_, _)
FlightScan(traj, i) ==
  IF ~(i < Len(traj) - FLIGHT_LOOKAHEAD) THEN Len(traj) - 1
  ELSE IF Abs(traj[i + FLIGHT_LOOKAHEAD + 1].y - traj[i + 1].y) < FLIGHT_Y_CHANGE THEN i
  ELSE FlightScan(traj, i + 1)

LandingFrame(traj, releaseFrame) == FlightScan(traj, releaseFrame + PHYS_MIN_TRAILING)

\* calculateFlightTime
FlightTime(traj, releaseFrame, fps) ==
  IF Len(traj) <= releaseFrame + PHYS_MIN_TRAILING THEN 0
  ELSE RoundDiv((LandingFrame(traj, releaseFrame) - releaseFrame) * 1000000, fps)

NoPhysArgs == [none |-> TRUE]
NoPhysResult == [none |-> TRUE]

\* calculatePhysics is not running.
PhysIdle ==
  /\ physPc = "idle"
  /\ physTrajectory = <<>>
  /\ physArgs = NoPhysArgs
  /\ physResult = NoPhysResult

\* The tracker starts at frame 0 with an empty trajectory.
PhysInit ==
  /\ physPc = "tracking"
  /\ physTrajectory = <<>>
  /\ physArgs = NoPhysArgs
  /\ physResult = NoPhysResult

\* The tracker's loop: frameNum += frameStep, one more point.
PhysTrackFrame ==
  /\ physPc = "tracking"
  /\ Len(physTrajectory) < PhysMaxPoints
  /\ \E p \in IF physTrajectory = <<>>
              THEN {Point(100, 100)}
              ELSE {Point(physTrajectory[Len(physTrajectory)].x + s[1],
                          physTrajectory[Len(physTrajectory)].y + s[2]) : s \in PhysSteps} :
       /\ Changes(Append(physTrajectory, p)) <= PhysMaxChanges
       /\ physTrajectory' = Append(physTrajectory, p)
  /\ UNCHANGED <<physPc, physArgs, physResult>>
  /\ UNCHANGED notPhys

\* calculatePhysics({trajectory, releaseFrame, fps, scaleFactor, ...})
PhysCalculate ==
  /\ physPc = "tracking"
  /\ physTrajectory # <<>>
  /\ \E releaseFrame \in 0..(Len(physTrajectory) - 1), fps \in PhysFps,
        scaleFactor \in PhysScaleFactors :
       /\ physArgs' = [releaseFrame |-> releaseFrame, fps |-> fps,
                       scaleFactor |-> scaleFactor]
       /\ physResult' =
            [releaseVelocity |-> ReleaseVelocity(physTrajectory, releaseFrame, fps, scaleFactor),
             releaseAngle |-> ReleaseAngle(physTrajectory, releaseFrame),
             flightTime |-> FlightTime(physTrajectory, releaseFrame, fps)]
  /\ physPc' = "done"
  /\ UNCHANGED physTrajectory
  /\ UNCHANGED notPhys

NextPhys == PhysTrackFrame \/ PhysCalculate

(***************************************************************************)
(* physics-engine.ts calculateDistanceConfidence, in doubles.  Two calls   *)
(* are made and kept with their arguments in tenths of a metre.            *)
(***************************************************************************)
DcMaxDistance == 6

\* Distances in tenths of a metre: short ones, zero and negative included,
\* and ones around a 70 m throw.
DcDistances == (-1..DcMaxDistance) \cup (699..701)

\* The double of n tenths.
DcMetres(n) == DDiv(DInt(n), DInt(10))

\* The integer of a bignum below LIMB * LIMB.
BToInt(n) == BLimb(n, 1) + LIMB * BLimb(n, 2)

\* Math.round(a) = floor(a + 1/2) for a double below LIMB * LIMB in magnitude.
MathRound(a) ==
  IF DIsZero(a) THEN 0
  ELSE IF a.e >= 0 THEN a.s * BToInt(BShl(a.m, a.e))
  ELSE IF a.s = 1
  THEN BToInt(BShr(BAdd(a.m, BShl(<<1>>, -a.e - 1)), -a.e))
  ELSE IF BCmp(a.m, BShl(<<1>>, -a.e - 1)) <= 0 THEN 0
  ELSE -BToInt(BShr(BAdd(BSub(a.m, BShl(<<1>>, -a.e - 1)),
                         BSub(BShl(<<1>>, -a.e), <<1>>)), -a.e))

\* Mutant of DcClamp: negative values are let through.
DcClampNever(c) == c

\* Math.max(0, c)
DcClamp(c) == IF DLt(c, DZero) THEN DZero ELSE c

\* Math.round(confidence * 100) / 100
DcRound(c) == DDiv(DInt(MathRound(DMul(c, DInt(100)))), DInt(100))

\* diff / avg
RelativeError(tracked, predicted) ==
  DDiv(DAbs(DSub(tracked, predicted)), DDiv(DAdd(tracked, predicted), DInt(2)))

calculateDistanceConfidence(tracked, predicted) ==
  IF ~DLt(DZero, tracked) \/ ~DLt(DZero, predicted) THEN DZero
  ELSE DcRound(DcClamp(DSub(DInt(1), RelativeError(tracked, predicted))))

NoDcCall == [none |-> TRUE]

\* No call has been made.
DcIdle == dcPrevious = NoDcCall /\ dcLast = NoDcCall

DcInit == dcPrevious = NoDcCall /\ dcLast = NoDcCall

\* calculateDistanceConfidence(trackedDistance, predictedDistance)
DcCalculate ==
  /\ dcPrevious = NoDcCall
  /\ \E tracked \in DcDistances, predicted \in DcDistances :
       dcLast' = [tracked |-> tracked, predicted |-> predicted,
                  confidence |-> calculateDistanceConfidence(DcMetres(tracked),
                                                             DcMetres(predicted))]
  /\ dcPrevious' = dcLast
  /\ UNCHANGED notDc

NextDc == DcCalculate

(***************************************************************************)
(* hammer-tracker analyzeTurns: turn boundaries of a trajectory around the *)
(* circle centre, in doubles.  Of a TurnMetrics the fields turnNumber,     *)
(* startIndex, endIndex and durationSec are modelled; the velocity and     *)
(* acceleration averages do not enter the choice of the boundaries.        *)
(***************************************************************************)
TurnMaxPoints == 13
TurnMaxChanges == 0

\* Math.PI = 0x1.921fb54442d18p+1
MATH_PI == [s |-> 1, m |-> <<11544, 10376, 2029, 201>>, e |-> -51]
\* Math.atan2(1, -1) = 0x1.2d97c7f3321d2p+1
ATAN2_THREE_QUARTERS == [s |-> 1, m |-> <<8658, 32358, 26097, 150>>, e |-> -51]
TwoPi == DMul(DInt(2), MATH_PI)
HalfPi == DDiv(MATH_PI, DInt(2))
QuarterPi == DDiv(MATH_PI, DInt(4))

\* The tracked positions: the eight compass directions from the circle
\* centre, counted counter-clockwise in image coordinates from +x.
TurnCentre == Point(320, 240)
TurnDirections ==
  <<Point(1, 0), Point(1, 1), Point(0, 1), Point(-1, 1),
    Point(-1, 0), Point(-1, -1), Point(0, -1), Point(1, -1)>>
TurnRadiusPixels == {100}
TurnPoints ==
  {Point(TurnCentre.x + r * TurnDirections[k].x, TurnCentre.y + r * TurnDirections[k].y) :
     r \in TurnRadiusPixels, k \in 1..8}
\* The advance of the direction from one sample to the next, in eighths of
\* a rotation.
TurnAdvances == {-2, -1, 1, 2}

\* The direction of p as an index 0..7 into TurnDirections.
TurnOctant(p) ==
  CHOOSE k \in 0..7 :
    \E r \in TurnRadiusPixels :
      p = Point(TurnCentre.x + r * TurnDirections[k + 1].x,
                TurnCentre.y + r * TurnDirections[k + 1].y)

\* The advance between samples k and k + 1 (1-based), within -3..4.
TurnAdvance(traj, k) ==
  ((TurnOctant(traj[k + 1]) - TurnOctant(traj[k]) + 11) % 8) - 3

\* How often the advance changes along the trajectory.
TurnChanges(traj) ==
  Cardinality({k \in 1..(Len(traj) - 2) : TurnAdvance(traj, k) # TurnAdvance(traj, k + 1)})

\* Math.atan2(dy, dx) for dy = 0, dx = 0 or |dy| = |dx|.
Atan2Octant(dy, dx) ==
  IF dy = 0 THEN (IF dx >= 0 THEN DZero ELSE MATH_PI)
  ELSE IF dx = 0 THEN (IF dy > 0 THEN HalfPi ELSE DNeg(HalfPi))
  ELSE IF dx > 0 THEN (IF dy > 0 THEN QuarterPi ELSE DNeg(QuarterPi))
  ELSE IF dy > 0 THEN ATAN2_THREE_QUARTERS ELSE DNeg(ATAN2_THREE_QUARTERS)

\* while (d > Math.PI) d -= 2 * Math.PI
RECURSIVE UnwrapDown(_)
UnwrapDown(d) == IF DLt(MATH_PI, d) THEN UnwrapDown(DSub(d, TwoPi)) ELSE d

\* while (d < -Math.PI) d += 2 * Math.PI
RECURSIVE UnwrapUp(_)
UnwrapUp(d) == IF DLt(d, DNeg(MATH_PI)) THEN UnwrapUp(DAdd(d, TwoPi)) ELSE d

\* The loop of unwrapAngles from position i (1-based) on.
RECURSIVE UnwrapFrom(_, _, _)
UnwrapFrom(angles, i, out) ==
  IF i > Len(angles) THEN out
  ELSE UnwrapFrom(angles, i + 1,
                  Only({Append(out, DAdd(out[i - 1], d)) :
                          d \in {UnwrapUp(UnwrapDown(DSub(angles[i], angles[i - 1])))}}))

unwrapAngles(angles) ==
  IF angles = <<>> THEN <<>> ELSE UnwrapFrom(angles, 2, <<angles[1]>>)

\* dir: 1 when totalRot >= 0, else -1.
TurnDir(angles) == IF DLt(DSub(angles[Len(angles)], angles[1]), DZero) THEN -1 ELSE 1

\* z * dir for dir = 1 or -1.
TimesDir(z, dir) == IF dir = 1 THEN z ELSE DNeg(z)

\* (angles[i] - angles[start]) * dir, for 0-based i and start.
RotFromStart(angles, dir, start, i) ==
  TimesDir(DSub(angles[i + 1], angles[start + 1]), dir)

\* summarizeTurn
summarizeTurn(turnNumber, startIndex, endIndex, dt) ==
  [turnNumber |-> turnNumber, startIndex |-> startIndex, endIndex |-> endIndex,
   durationSec |-> DMul(DInt(endIndex - startIndex), dt)]

\* Mutant of CrossesTurn: a boundary three quarters of a rotation on.
CrossesTurnEarly(angles, dir, start, i) ==
  ~DLt(RotFromStart(angles, dir, start, i), DMul(DInt(3), HalfPi))

\* rotFromStart >= 2 * Math.PI
CrossesTurn(angles, dir, start, i) == ~DLt(RotFromStart(angles, dir, start, i), TwoPi)

\* Mutant of TurnLoop: the next turn starts one sample after the boundary.
RECURSIVE TurnLoopGap(_, _, _, _, _, _)
TurnLoopGap(angles, dir, dt, i, start, turns) ==
  IF ~(i < Len(angles)) THEN <<turns, start>>
  ELSE IF CrossesTurn(angles, dir, start, i)
  THEN TurnLoopGap(angles, dir, dt, i + 1, i + 1,
                   Append(turns, summarizeTurn(Len(turns) + 1, start, i, dt)))
  ELSE TurnLoopGap(angles, dir, dt, i + 1, start, turns)

\* The loop over i that closes a turn at each boundary: <<turns, start>>.
RECURSIVE TurnLoop(_, _, _, _, _, _)
TurnLoop(angles, dir, dt, i, start, turns) ==
  IF ~(i < Len(angles)) THEN <<turns, start>>
  ELSE IF CrossesTurn(angles, dir, start, i)
  THEN TurnLoop(angles, dir, dt, i + 1, i,
                Append(turns, summarizeTurn(Len(turns) + 1, start, i, dt)))
  ELSE TurnLoop(angles, dir, dt, i + 1, start, turns)

\* The partial last turn, added when it spans at least 90 degrees.
WithPartialTurn(angles, dir, dt, loop) ==
  IF loop[2] < Len(angles) - 4
     /\ ~DLt(DAbs(RotFromStart(angles, dir, loop[2], Len(angles) - 1)), HalfPi)
  THEN Append(loop[1], summarizeTurn(Len(loop[1]) + 1, loop[2], Len(angles) - 1, dt))
  ELSE loop[1]

\* The part of analyzeTurns after dir is known.
TurnsIn(angles, dir, dt) ==
  WithPartialTurn(angles, dir, dt, TurnLoop(angles, dir, dt, 1, 0, <<>>))

\* The part of analyzeTurns after the angles are unwrapped.
TurnsOf(angles, dt) == TurnsIn(angles, TurnDir(angles), dt)

Min(a, b) == IF a <= b THEN a ELSE b

\* rawAngles of pre = trajectory.slice(0, Math.min(releaseIndex + 1, length))
RawAngles(traj, releaseIndex, centre) ==
  [k \in 1..Min(releaseIndex + 1, Len(traj)) |->
     Atan2Octant(traj[k].y - centre.y, traj[k].x - centre.x)]

analyzeTurns(traj, releaseIndex, centre, fps, frameStep) ==
  IF Len(traj) < 12 \/ releaseIndex < 8 THEN <<>>
  ELSE Only({TurnsOf(angles, dt) :
                 angles \in {unwrapAngles(RawAngles(traj, releaseIndex, centre))},
                 dt \in {DDiv(DInt(frameStep), DInt(fps))}})

NoTurns == [none |-> TRUE]

\* analyzeTurns is not running.
TurnIdle ==
  /\ turnPc = "idle"
  /\ turnTrajectory = <<>>
  /\ turnReleaseIndex = -1
  /\ turnResult = NoTurns

\* The tracker starts with an empty trajectory.
TurnInit ==
  /\ turnPc = "tracking"
  /\ turnTrajectory = <<>>
  /\ turnReleaseIndex = -1
  /\ turnResult = NoTurns

\* The worker adds the position found in one more frame.
TurnTrackFrame ==
  /\ turnPc = "tracking"
  /\ Len(turnTrajectory) < TurnMaxPoints
  /\ \E p \in TurnPoints :
       /\ turnTrajectory # <<>> =>
            /\ TurnAdvance(<<turnTrajectory[Len(turnTrajectory)], p>>, 1) \in TurnAdvances
            /\ TurnChanges(Append(turnTrajectory, p)) <= TurnMaxChanges
       /\ turnTrajectory' = Append(turnTrajectory, p)
  /\ UNCHANGED <<turnPc, turnReleaseIndex, turnResult>>
  /\ UNCHANGED notTurn

\* The worker's result arrives and analyzeTurns runs on its trajectory and
\* release index.
TurnAnalyze ==
  /\ turnPc = "tracking"
  /\ turnTrajectory # <<>>
  /\ \E releaseIndex \in 0..(Len(turnTrajectory) - 1), fps \in PhysFps :
       /\ releaseIndex >= Len(turnTrajectory) - 2
       /\ turnReleaseIndex' = releaseIndex
       /\ turnResult' = analyzeTurns(turnTrajectory, releaseIndex, TurnCentre, fps,
                                     PHYS_FRAME_STEP)
  /\ turnPc' = "done"
  /\ UNCHANGED turnTrajectory
  /\ UNCHANGED notTurn

NextTurn == TurnTrackFrame \/ TurnAnalyze

(***************************************************************************)
(* state.svelte.ts AppState with the page that drives it, and the          *)
(* two-point entry point calculateThrowWithDrag(p1, p2, pixelsPerMeter,    *)
(* releaseHeight).  Times are frames of the video, positions pixels,       *)
(* speeds mm/s, angles thousandths of a degree, distances mm.  A quotient  *)
(* of two numbers is kept exactly, as numerator and denominator.           *)
(***************************************************************************)
TpMaxFrame == 2

\* fps = $state<number>(60)
TP_FPS == 60
\* calculateThrowWithDrag(p1, p2, 100, 1.8)
TP_PIXELS_PER_METER == 100

\* The positions a click can give.
TpClicks == {Point(100, 100), Point(110, 90), Point(100, 90)}
\* The distances the drag simulation can return, mm.
TpDistances == {0, 40000}

TimedPoint(point, time) == [x |-> point.x, y |-> point.y, time |-> time]

\* Math.atan2(dy, dx) in thousandths of a degree for dy = 0, dx = 0 or
\* |dy| = |dx|.
TpAngle(dy, dx) ==
  IF dy = 0 THEN (IF dx >= 0 THEN 0 ELSE 180000)
  ELSE IF dx = 0 THEN (IF dy > 0 THEN 90000 ELSE -90000)
  ELSE IF dx > 0 THEN (IF dy > 0 THEN 45000 ELSE -45000)
  ELSE IF dy > 0 THEN 135000 ELSE -135000

ZeroThrow == [velocity |-> Num(0), angle |-> Num(0), distance |-> Num(0)]

\* The finite difference of the two positions over their time difference.
TwoPointVelocity(p1, p2, pixelsPerMeter) ==
  (ISqrt(((p2.x - p1.x) * (p2.x - p1.x) + (p2.y - p1.y) * (p2.y - p1.y)) * 1000000) * TP_FPS)
    \div (pixelsPerMeter * Abs(p2.time - p1.time))

\* Mutant of calculateThrowWithDragTwoPoint: no special case, the division
\* by the time difference 0 gives NaN or Infinity.
TwoPointUnguarded(p1, p2, pixelsPerMeter, simulated) ==
  [velocity |-> IF p2.time = p1.time THEN NaN
                ELSE Num(TwoPointVelocity(p1, p2, pixelsPerMeter)),
   angle |-> Num(TpAngle(p1.y - p2.y, p2.x - p1.x)),
   distance |-> IF p2.time = p1.time THEN NaN ELSE Num(simulated)]

\* calculateThrowWithDrag(p1, p2, pixelsPerMeter, releaseHeight); simulated
\* is the distance the drag simulation returns for the velocity found.
calculateThrowWithDragTwoPoint(p1, p2, pixelsPerMeter, simulated) ==
  IF p2.time = p1.time THEN ZeroThrow
  ELSE [velocity |-> Num(TwoPointVelocity(p1, p2, pixelsPerMeter)),
        angle |-> Num(TpAngle(p1.y - p2.y, p2.x - p1.x)),
        distance |-> Num(simulated)]

NoThrow == [none |-> TRUE]

\* realWorldDistance = $state<number>(2.135), in mm
REAL_WORLD_DISTANCE == 2135
\* The values typed into the distance field, mm; an empty field reads as 0.
TpTypedDistances == {REAL_WORLD_DISTANCE, 1000, 0, -1000}
\* The circles detectThrowingCircle can return.
TpCircles == {[centerX |-> 100, centerY |-> 100, radius |-> 50]}

\* The number num / den: NaN for 0 / 0, an infinity for den = 0 otherwise.
Ratio(num, den) == [num |-> num, den |-> den]
NoRatio == [none |-> TRUE]
\* q > 0
RatioPositive(q) ==
  IF q.den = 0 THEN q.num > 0
  ELSE (q.num > 0 /\ q.den > 0) \/ (q.num < 0 /\ q.den < 0)

\* Math.sqrt(dx * dx + dy * dy) / this.realWorldDistance, in hundredths of a
\* pixel per mm.
ScaleOf(a, b, realWorldDistance) ==
  Ratio(ISqrt(((b.x - a.x) * (b.x - a.x) + (b.y - a.y) * (b.y - a.y)) * 10000),
        realWorldDistance)

\* The page is not in use.
TpIdle ==
  /\ tpStep = "idle"
  /\ tpScalePoints = <<>>
  /\ tpRealWorldDistance = REAL_WORLD_DISTANCE
  /\ tpPixelsPerMeter = Ratio(0, 1)
  /\ tpAnalysed = NoRatio
  /\ tpSubStep = "point1"
  /\ tpCurrentTime = 0
  /\ tpPoint1 = NullPoint
  /\ tpPoint2 = NullPoint
  /\ tpGroundY = NullPoint
  /\ tpResult = NoThrow

\* AppState as constructed.
TpInit ==
  /\ tpStep = "upload"
  /\ tpScalePoints = <<>>
  /\ tpRealWorldDistance = REAL_WORLD_DISTANCE
  /\ tpPixelsPerMeter = Ratio(0, 1)
  /\ tpAnalysed = NoRatio
  /\ tpSubStep = "point1"
  /\ tpCurrentTime = 0
  /\ tpPoint1 = NullPoint
  /\ tpPoint2 = NullPoint
  /\ tpGroundY = NullPoint
  /\ tpResult = NoThrow

\* Start Calibration: appState.goToStep('calibrate')
TpStartCalibration ==
  /\ tpStep = "upload"
  /\ tpStep' = "calibrate"
  /\ UNCHANGED <<tpScalePoints, tpRealWorldDistance, tpPixelsPerMeter, tpAnalysed, tpSubStep,
                 tpCurrentTime, tpPoint1, tpPoint2, tpGroundY, tpResult>>
  /\ UNCHANGED notTp

\* handleCalibrationClick(point): appState.addScalePoint(point)
TpCalibrationClick ==
  /\ tpStep = "calibrate"
  /\ \E point \in TpClicks :
       tpScalePoints' = IF Len(tpScalePoints) < 2 THEN Append(tpScalePoints, point)
                        ELSE tpScalePoints
  /\ UNCHANGED <<tpStep, tpRealWorldDistance, tpPixelsPerMeter, tpAnalysed, tpSubStep,
                 tpCurrentTime, tpPoint1, tpPoint2, tpGroundY, tpResult>>
  /\ UNCHANGED notTp

\* autoDetectCircle with a circle found: appState.setScalePointsFromCircle(circle)
TpAutoDetectCircle ==
  /\ tpStep = "calibrate"
  /\ \E circle \in TpCircles :
       tpScalePoints' = <<Point(circle.centerX - circle.radius, circle.centerY),
                          Point(circle.centerX + circle.radius, circle.centerY)>>
  /\ UNCHANGED <<tpStep, tpRealWorldDistance, tpPixelsPerMeter, tpAnalysed, tpSubStep,
                 tpCurrentTime, tpPoint1, tpPoint2, tpGroundY, tpResult>>
  /\ UNCHANGED notTp

\* The distance field, shown once there are two scale points:
\* appState.realWorldDistance = +e.target.value
TpTypeDistance ==
  /\ tpStep = "calibrate"
  /\ Len(tpScalePoints) = 2
  /\ \E typed \in TpTypedDistances :
       /\ typed # tpRealWorldDistance
       /\ tpRealWorldDistance' = typed
  /\ UNCHANGED <<tpStep, tpScalePoints, tpPixelsPerMeter, tpAnalysed, tpSubStep,
                 tpCurrentTime, tpPoint1, tpPoint2, tpGroundY, tpResult>>
  /\ UNCHANGED notTp

\* Confirm Calibration: appState.calculateScale(); appState.goToStep('measure')
TpConfirmCalibration ==
  /\ tpStep = "calibrate"
  /\ Len(tpScalePoints) = 2
  /\ tpPixelsPerMeter' = ScaleOf(tpScalePoints[1], tpScalePoints[2], tpRealWorldDistance)
  /\ tpStep' = "measure"
  /\ UNCHANGED <<tpScalePoints, tpRealWorldDistance, tpAnalysed, tpSubStep,
                 tpCurrentTime, tpPoint1, tpPoint2, tpGroundY, tpResult>>
  /\ UNCHANGED notTp

\* handleTimeUpdate: appState.currentTime = videoEl.currentTime
TpTimeUpdate ==
  /\ tpStep = "measure"
  /\ tpResult = NoThrow
  /\ \E frame \in 0..TpMaxFrame :
       /\ frame # tpCurrentTime
       /\ tpCurrentTime' = frame
  /\ UNCHANGED <<tpStep, tpScalePoints, tpRealWorldDistance, tpPixelsPerMeter, tpAnalysed,
                 tpSubStep, tpPoint1, tpPoint2, tpGroundY, tpResult>>
  /\ UNCHANGED notTp

\* handleMeasurementClick(point)
TpMeasurementClick ==
  /\ tpStep = "measure"
  /\ tpSubStep \in {"point1", "point2", "ground"}
  /\ \E point \in TpClicks :
       \/ /\ tpSubStep = "point1"
          /\ tpPoint1' = TimedPoint(point, tpCurrentTime)
          /\ tpSubStep' = "point2"
          /\ UNCHANGED <<tpPoint2, tpGroundY>>
       \/ /\ tpSubStep = "point2"
          /\ tpPoint2' = TimedPoint(point, tpCurrentTime)
          /\ tpSubStep' = "ground"
          /\ UNCHANGED <<tpPoint1, tpGroundY>>
       \/ /\ tpSubStep = "ground"
          /\ tpGroundY' = point.y
          /\ tpSubStep' = "ready"
          /\ UNCHANGED <<tpPoint1, tpPoint2>>
  /\ UNCHANGED <<tpStep, tpScalePoints, tpRealWorldDistance, tpPixelsPerMeter, tpAnalysed,
                 tpCurrentTime, tpResult>>
  /\ UNCHANGED notTp

\* The two-point calculation on the measured points.
TpCalculate ==
  /\ tpStep = "measure"
  /\ tpSubStep = "ready"
  /\ tpResult = NoThrow
  /\ \E simulated \in TpDistances :
       tpResult' = calculateThrowWithDragTwoPoint(tpPoint1, tpPoint2, TP_PIXELS_PER_METER,
                                                  simulated)
  /\ UNCHANGED <<tpStep, tpScalePoints, tpRealWorldDistance, tpPixelsPerMeter, tpAnalysed,
                 tpSubStep, tpCurrentTime, tpPoint1, tpPoint2, tpGroundY>>
  /\ UNCHANGED notTp

\* Analyze Throw, enabled once measureSubStep is 'ready': runAnalysis hands
\* appState.pixelsPerMeter to trackHammerOverFrames and ends on the results
\* step, or where it was when no velocity could be fitted.
TpRunAnalysis ==
  /\ tpStep = "measure"
  /\ tpSubStep = "ready"
  /\ tpAnalysed = NoRatio
  /\ tpAnalysed' = tpPixelsPerMeter
  /\ tpStep' \in {"measure", "results"}
  /\ UNCHANGED <<tpScalePoints, tpRealWorldDistance, tpPixelsPerMeter, tpSubStep,
                 tpCurrentTime, tpPoint1, tpPoint2, tpGroundY, tpResult>>
  /\ UNCHANGED notTp

NextTp ==
  \/ TpStartCalibration
  \/ TpCalibrationClick
  \/ TpAutoDetectCircle
  \/ TpTypeDistance
  \/ TpConfirmCalibration
  \/ TpTimeUpdate
  \/ TpMeasurementClick
  \/ TpCalculate
  \/ TpRunAnalysis

(***************************************************************************)
(* cv/loadOpenCV.ts loadOpenCV, with the opencv-js module of               *)
(* opencv.spec.ts: setting onRuntimeInitialized starts a timer that        *)
(* defines Mat and calls the function set.  An object is its reference and *)
(* the names of its properties.                                            *)
(***************************************************************************)
CvMaxCalls == 3

CvCalls == 1..CvMaxCalls

\* The reference of the module object; the objects allocated by the calls
\* are numbered from 1.
CV_MODULE_REF == 0

\* The promise a call has returned is pending and the call has not run.
CvNotCalled == [pc |-> "notCalled"]

\* The object literal { cv }: a new object whose one property refers to the
\* module object.
CvWrapper(ref) == [ref |-> ref, props |-> {"cv"}, cv |-> CV_MODULE_REF]

\* return { cv }: the promise of the call resolves to a new object.
CvReturn(call) ==
  /\ cvCall' = [cvCall EXCEPT ![call] = [pc |-> "resolved", value |-> CvWrapper(cvAllocated + 1)]]
  /\ cvAllocated' = cvAllocated + 1

\* loadOpenCV is not in use.
CvIdle ==
  /\ cvModuleIsPromise = FALSE
  /\ cvMat = FALSE
  /\ cvCall = <<>>
  /\ cvAllocated = 0

\* The module is imported: a promise of the module object or the object
\* itself, with or without Mat.
CvInit ==
  /\ cvModuleIsPromise \in BOOLEAN
  /\ cvMat \in BOOLEAN
  /\ cvCall = [call \in CvCalls |-> CvNotCalled]
  /\ cvAllocated = 0

\* loadOpenCV() up to its first await or its return.
CvLoadOpenCV ==
  /\ \E call \in CvCalls :
       /\ cvCall[call] = CvNotCalled
       /\ IF cvModuleIsPromise
          THEN /\ cvCall' = [cvCall EXCEPT ![call] = [pc |-> "awaitModule"]]
               /\ UNCHANGED cvAllocated
          ELSE IF cvMat
          THEN CvReturn(call)
          ELSE /\ cvCall' = [cvCall EXCEPT ![call] = [pc |-> "awaitRuntime"]]
               /\ UNCHANGED cvAllocated
  /\ UNCHANGED <<cvModuleIsPromise, cvMat>>
  /\ UNCHANGED notCv

\* cv = await cvModule, then return { cv }.
CvModuleAwaited ==
  /\ \E call \in CvCalls :
       /\ cvCall[call].pc = "awaitModule"
       /\ CvReturn(call)
  /\ UNCHANGED <<cvModuleIsPromise, cvMat>>
  /\ UNCHANGED notCv

\* The timer started by setting onRuntimeInitialized fires: Mat is defined
\* and the function of the call is called; the call goes on to return { cv }.
CvRuntimeInitialized ==
  /\ \E call \in CvCalls :
       /\ cvCall[call].pc = "awaitRuntime"
       /\ CvReturn(call)
  /\ cvMat' = TRUE
  /\ UNCHANGED cvModuleIsPromise
  /\ UNCHANGED notCv

NextCv == CvLoadOpenCV \/ CvModuleAwaited \/ CvRuntimeInitialized

(***************************************************************************)
(* tracking.worker.ts (lines 304-645) : coordinate frames of the points    *)
(* the tracking worker posts, as handed on to calculatePhysics by          *)
(* video-processor.ts lines 147-186                                        *)
(***************************************************************************)
\* Longest trajectory explored and the number of displacement changes on it.
CrdMaxPoints == 11
CrdMaxChanges == 1

\* const maxDimension = 640
MAX_DIMENSION == 640

\* Sizes of the explored videos; for each of them state.scale is a power of
\* two, so that the divisions by state.scale are exact.
CrdVideos ==
  { [videoWidth |-> 320,  videoHeight |-> 240],
    [videoWidth |-> 640,  videoHeight |-> 480],
    [videoWidth |-> 1280, videoHeight |-> 720],
    [videoWidth |-> 2560, videoHeight |-> 1440] }

\* First tracked point, in the coordinates of the processing canvas.
CrdStart == Point(40, 30)

\* Math.max(a, b)
Max(a, b) == IF a >= b THEN a ELSE b

\* state.scale = Math.min(1, maxDimension / Math.max(videoWidth, videoHeight))
CrdScaleOf(video) ==
  IF MAX_DIMENSION >= Max(video.videoWidth, video.videoHeight)
  THEN Ratio(1, 1)
  ELSE Ratio(MAX_DIMENSION, Max(video.videoWidth, video.videoHeight))

\* { x: point.x / state.scale, y: point.y / state.scale }
DivScale(p, scale) ==
  Point((p.x * scale.den) \div scale.num, (p.y * scale.den) \div scale.num)

\* { x: circleCenter.x * state.scale, y: circleCenter.y * state.scale }
TimesScale(p, scale) ==
  Point((p.x * scale.num) \div scale.den, (p.y * scale.num) \div scale.den)

\* calibrationData.circleCenter: the centre of the video, in the pixel
\* coordinates of the original video.
CrdCircleCenter(video) == Point(video.videoWidth \div 2, video.videoHeight \div 2)

NoCrdResult == [none |-> TRUE]

\* handleInit: the scale is set and the trajectory is empty.
CrdInit ==
  /\ crdPc = "tracking"
  /\ crdVideo \in CrdVideos
  /\ crdScale = CrdScaleOf(crdVideo)
  /\ crdCenterScaled = TimesScale(CrdCircleCenter(crdVideo), crdScale)
  /\ crdTrajectory = <<>>
  /\ crdReported = <<>>
  /\ crdResult = NoCrdResult
  /\ crdPhysics = NoCrdResult

\* The worker has not been started.
CrdIdle ==
  /\ crdPc = "idle"
  /\ crdVideo = [videoWidth |-> 0, videoHeight |-> 0]
  /\ crdScale = Ratio(1, 1)
  /\ crdCenterScaled = Point(0, 0)
  /\ crdTrajectory = <<>>
  /\ crdReported = <<>>
  /\ crdResult = NoCrdResult
  /\ crdPhysics = NoCrdResult

\* handleProcessFrame: the tracked point is pushed as it is, in canvas
\* coordinates (line 534), and posted divided by state.scale (lines 553-557).
CrdProcessFrame ==
  /\ crdPc = "tracking"
  /\ Len(crdTrajectory) < CrdMaxPoints
  /\ \E point \in IF crdTrajectory = <<>>
                  THEN {CrdStart}
                  ELSE {Point(crdTrajectory[Len(crdTrajectory)].x + s[1],
                              crdTrajectory[Len(crdTrajectory)].y + s[2]) : s \in StepVectors} :
       /\ Changes(Append(crdTrajectory, point)) <= CrdMaxChanges
       /\ crdTrajectory' = Append(crdTrajectory, point)
       /\ crdReported' = Append(crdReported, DivScale(point, crdScale))
  /\ UNCHANGED <<crdPc, crdVideo, crdScale, crdCenterScaled, crdResult, crdPhysics>>
  /\ UNCHANGED notCrd

\* handleDetectReleaseLanding (lines 603-614): the result carries
\* state.trajectory and the two points taken from it.
CrdDetectReleaseLanding ==
  /\ crdPc = "tracking"
  /\ crdResult' = [trajectory |-> crdTrajectory,
                   releasePoint |-> detectReleaseAndLanding(crdTrajectory).releasePoint,
                   landingPoint |-> detectReleaseAndLanding(crdTrajectory).landingPoint,
                   releaseFrame |-> detectReleaseAndLanding(crdTrajectory).releaseFrame]
  /\ crdPc' = "result"
  /\ UNCHANGED <<crdVideo, crdScale, crdCenterScaled, crdTrajectory, crdReported, crdPhysics>>
  /\ UNCHANGED notCrd

\* video-processor.ts lines 147-186: without a release or landing point the
\* run fails; otherwise the tracking result and the calibration's circle
\* centre are handed to calculatePhysics.
CrdCalculatePhysics ==
  /\ crdPc = "result"
  /\ IF crdResult.releasePoint = NullPoint \/ crdResult.landingPoint = NullPoint
     THEN /\ crdPc' = "failed"
          /\ UNCHANGED crdPhysics
     ELSE /\ crdPc' = "physics"
          /\ crdPhysics' = [trajectory |-> crdResult.trajectory,
                            releasePoint |-> crdResult.releasePoint,
                            landingPoint |-> crdResult.landingPoint,
                            releaseFrame |-> crdResult.releaseFrame,
                            circleCenter |-> CrdCircleCenter(crdVideo)]
  /\ UNCHANGED <<crdVideo, crdScale, crdCenterScaled, crdTrajectory, crdReported, crdResult>>
  /\ UNCHANGED notCrd

NextCrd == CrdProcessFrame \/ CrdDetectReleaseLanding \/ CrdCalculatePhysics

(***************************************************************************)
(* hammer-tracker.ts : trackHammerTrajectoryWithWorker (lines 17-170; the  *)
(* same control flow in part_007 lines 166-310)                            *)
(***************************************************************************)
\* Longest video explored, in frames (totalFrames).
TrkMaxFrames == 24
\* Math.round(video.duration * fps) of the explored videos.
TrkTotalFrames == {n \in 0..TrkMaxFrames : n % PHYS_FRAME_STEP = 0}

\* The types of the messages the worker posts (worker-utils).
TrkReplyTypes == {"initialized", "frameProcessed", "result", "error"}

ErrCanvasContext == "Failed to create canvas context"
ErrWorker == "Worker error"
ErrSeekTimeout == "Video seek timeout"
ErrProcessingTimeout == "Video processing timeout - took longer than 5 minutes"
ErrBlob == "Failed to create blob"
ErrNoResult == "Failed to get tracking result from worker"

\* The call has not started; the video has its duration.
TrkInit ==
  /\ trkPc = "start"
  /\ trkWorker = "none"
  /\ trkTotal \in TrkTotalFrames
  /\ trkFrameNum = 0
  /\ trkOverTime = FALSE
  /\ trkExit = "none"

\* trackHammerTrajectoryWithWorker is never called.
TrkIdle ==
  /\ trkPc = "idle"
  /\ trkWorker = "none"
  /\ trkTotal = 0
  /\ trkFrameNum = 0
  /\ trkOverTime = FALSE
  /\ trkExit = "none"

\* The finally block (lines 164-169) on the way out of the try statement.
TrkFinally(exit) ==
  /\ trkWorker' = "terminated"
  /\ trkExit' = exit
  /\ trkPc' = "done"

\* Lines 27-81: the worker is created, then the canvas and its 2D context;
\* without a context the function throws before the try statement, with one
\* the 'init' message is posted and awaited.
TrkStart ==
  /\ trkPc = "start"
  /\ \E ctx \in BOOLEAN :
       IF ~ctx
       THEN /\ trkWorker' = "running"
            /\ trkExit' = ErrCanvasContext
            /\ trkPc' = "done"
       ELSE /\ trkWorker' = "running"
            /\ trkPc' = "init"
            /\ UNCHANGED trkExit
  /\ UNCHANGED <<trkTotal, trkFrameNum, trkOverTime>>
  /\ UNCHANGED notTrk

\* Date.now() - startTime passes maxProcessingTime while the call runs.
TrkTimePasses ==
  /\ trkPc \in {"init", "seek", "frame"}
  /\ ~trkOverTime
  /\ trkOverTime' = TRUE
  /\ UNCHANGED <<trkPc, trkWorker, trkTotal, trkFrameNum, trkExit>>
  /\ UNCHANGED notTrk

\* The head of the for loop (lines 89-111) and, after the loop, the
\* 'detectReleaseLanding' request (lines 145-148).
TrkLoopHead(frameNum) ==
  IF frameNum < trkTotal
  THEN IF trkOverTime
       THEN TrkFinally(ErrProcessingTimeout)
       ELSE /\ trkPc' = "seek"
            /\ UNCHANGED <<trkWorker, trkExit>>
  ELSE /\ trkPc' = "detect"
       /\ UNCHANGED <<trkWorker, trkExit>>

\* worker.onmessage while a request is pending: the pending promise resolves
\* with the message, whatever its type. After 'init' the loop starts, after
\* 'processFrame' the next iteration does, and the reply to
\* 'detectReleaseLanding' is returned when its type is 'result'.
TrkWorkerMessage ==
  /\ trkPc \in {"init", "frame", "detect"}
  /\ \E type \in TrkReplyTypes :
       CASE trkPc = "init" ->
              /\ TrkLoopHead(trkFrameNum)
              /\ UNCHANGED trkFrameNum
         [] trkPc = "frame" ->
              /\ TrkLoopHead(trkFrameNum + PHYS_FRAME_STEP)
              /\ trkFrameNum' = trkFrameNum + PHYS_FRAME_STEP
         [] trkPc = "detect" ->
              /\ TrkFinally(IF type = "result" THEN "returned" ELSE ErrNoResult)
              /\ UNCHANGED trkFrameNum
  /\ UNCHANGED <<trkTotal, trkOverTime>>
  /\ UNCHANGED notTrk

\* worker.onerror while a request is pending: the pending promise rejects.
TrkWorkerError ==
  /\ trkPc \in {"init", "frame", "detect"}
  /\ TrkFinally(ErrWorker)
  /\ UNCHANGED <<trkTotal, trkFrameNum, trkOverTime>>
  /\ UNCHANGED notTrk

\* The 'seeked' event: the frame is drawn and turned into a bitmap (lines
\* 113-130); toBlob may hand over no blob.
TrkSeeked ==
  /\ trkPc = "seek"
  /\ \E blob \in BOOLEAN :
       IF blob
       THEN /\ trkPc' = "frame"
            /\ UNCHANGED <<trkWorker, trkExit>>
       ELSE TrkFinally(ErrBlob)
  /\ UNCHANGED <<trkTotal, trkFrameNum, trkOverTime>>
  /\ UNCHANGED notTrk

\* The 5 s timer of the seek fires first (lines 102-104).
TrkSeekTimeout ==
  /\ trkPc = "seek"
  /\ TrkFinally(ErrSeekTimeout)
  /\ UNCHANGED <<trkTotal, trkFrameNum, trkOverTime>>
  /\ UNCHANGED notTrk

NextTrk ==
  \/ TrkStart
  \/ TrkTimePasses
  \/ TrkWorkerMessage
  \/ TrkWorkerError
  \/ TrkSeeked
  \/ TrkSeekTimeout

(***************************************************************************)
(* use-opencv.ts (lines 92-213) : the process-wide OpenCV loader           *)
(***************************************************************************)
\* Number of useOpenCV mounts and of loadOpenCV calls explored.
OcvMaxMounts == 2
OcvMaxCalls == 2

ErrOpenCVLoadTimeout == "OpenCV load timeout (60s)"
ErrMatTimeout == "OpenCV runtime did not initialize (Mat not available)."
ErrImport == "import failed"

\* A promise: pending, fulfilled, or rejected with an error message.
OcvPending == [state |-> "pending", error |-> "null"]
OcvFulfilled == [state |-> "fulfilled", error |-> "null"]
OcvRejected(msg) == [state |-> "rejected", error |-> msg]
OcvNoPromise == [state |-> "null", error |-> "null"]

\* The module after its import: nothing loaded, nothing mounted.
OcvInit ==
  /\ ocvStarted = TRUE
  /\ ocvInstance = "null"
  /\ ocvLoadingPromise = OcvNoPromise
  /\ ocvLoadError = "null"
  /\ ocvImport = "none"
  /\ ocvTimer = "none"
  /\ ocvHooks = <<>>
  /\ ocvCalls = <<>>

\* The loader module is not in use.
OcvIdle ==
  /\ ocvStarted = FALSE
  /\ ocvInstance = "null"
  /\ ocvLoadingPromise = OcvNoPromise
  /\ ocvLoadError = "null"
  /\ ocvImport = "none"
  /\ ocvTimer = "none"
  /\ ocvHooks = <<>>
  /\ ocvCalls = <<>>

\* if (!loadingPromise) loadingPromise = loadOpenCVInternal(): the import is
\* started and the 60 s timer armed (lines 147-165); the call returns a
\* pending promise.
OcvEnsureLoading ==
  IF ocvLoadingPromise = OcvNoPromise
  THEN /\ ocvLoadingPromise' = OcvPending
       /\ ocvImport' = "importing"
       /\ ocvTimer' = "armed"
  ELSE UNCHANGED <<ocvLoadingPromise, ocvImport, ocvTimer>>

\* useOpenCV is mounted: the initial state and the effect (lines 167-191).
OcvMount ==
  /\ ocvStarted
  /\ Len(ocvHooks) < OcvMaxMounts
  /\ IF ocvInstance # "null"
     THEN /\ ocvHooks' = Append(ocvHooks, [pc |-> "done", isLoaded |-> TRUE, error |-> ocvLoadError])
          /\ UNCHANGED <<ocvLoadingPromise, ocvImport, ocvTimer>>
     ELSE IF ocvLoadError # "null"
     THEN /\ ocvHooks' = Append(ocvHooks, [pc |-> "done", isLoaded |-> FALSE, error |-> ocvLoadError])
          /\ UNCHANGED <<ocvLoadingPromise, ocvImport, ocvTimer>>
     ELSE /\ ocvHooks' = Append(ocvHooks, [pc |-> "subscribed", isLoaded |-> FALSE, error |-> "null"])
          /\ OcvEnsureLoading
  /\ UNCHANGED <<ocvStarted, ocvInstance, ocvLoadError, ocvCalls>>
  /\ UNCHANGED notOcv

\* The reaction a mounted hook attached to loadingPromise (lines 184-190):
\* then sets isLoaded, catch stores the message in loadError.
OcvHookSettles ==
  /\ ocvLoadingPromise.state \in {"fulfilled", "rejected"}
  /\ \E h \in DOMAIN ocvHooks :
       /\ ocvHooks[h].pc = "subscribed"
       /\ IF ocvLoadingPromise.state = "fulfilled"
          THEN /\ ocvHooks' = [ocvHooks EXCEPT ![h] =
                                 [pc |-> "done", isLoaded |-> TRUE, error |-> @.error]]
               /\ UNCHANGED ocvLoadError
          ELSE /\ ocvHooks' = [ocvHooks EXCEPT ![h] =
                                 [pc |-> "done", isLoaded |-> @.isLoaded,
                                  error |-> ocvLoadingPromise.error]]
               /\ ocvLoadError' = ocvLoadingPromise.error
  /\ UNCHANGED <<ocvStarted, ocvInstance, ocvLoadingPromise, ocvImport, ocvTimer, ocvCalls>>
  /\ UNCHANGED notOcv

\* loadOpenCV() is called (lines 196-201).
OcvLoadOpenCV ==
  /\ ocvStarted
  /\ Len(ocvCalls) < OcvMaxCalls
  /\ IF ocvInstance # "null"
     THEN /\ ocvCalls' = Append(ocvCalls, OcvFulfilled)
          /\ UNCHANGED <<ocvLoadingPromise, ocvImport, ocvTimer>>
     ELSE IF ocvLoadError # "null"
     THEN /\ ocvCalls' = Append(ocvCalls, OcvRejected(ocvLoadError))
          /\ UNCHANGED <<ocvLoadingPromise, ocvImport, ocvTimer>>
     ELSE /\ ocvCalls' = Append(ocvCalls, OcvPending)
          /\ OcvEnsureLoading
  /\ UNCHANGED <<ocvStarted, ocvInstance, ocvLoadError, ocvHooks>>
  /\ UNCHANGED notOcv

\* A pending loadOpenCV() promise follows loadingPromise.
OcvCallSettles ==
  /\ ocvLoadingPromise.state \in {"fulfilled", "rejected"}
  /\ \E c \in DOMAIN ocvCalls :
       /\ ocvCalls[c] = OcvPending
       /\ ocvCalls' = [ocvCalls EXCEPT ![c] = ocvLoadingPromise]
  /\ UNCHANGED <<ocvStarted, ocvInstance, ocvLoadingPromise, ocvLoadError, ocvImport,
                 ocvTimer, ocvHooks>>
  /\ UNCHANGED notOcv

\* await Promise.race([importPromise, timeoutPromise]): the first promise to
\* settle settles loadingPromise; a later one changes nothing.
OcvRaceSettles(outcome) ==
  ocvLoadingPromise' = IF ocvLoadingPromise = OcvPending THEN outcome ELSE ocvLoadingPromise

\* import('@techstark/opencv-js') resolves and the export is resolved; the
\* then callback goes on to wait for Mat (lines 151-155).
OcvImportResolves ==
  /\ ocvImport = "importing"
  /\ ocvImport' = "waitMat"
  /\ UNCHANGED <<ocvStarted, ocvInstance, ocvLoadingPromise, ocvLoadError, ocvTimer,
                 ocvHooks, ocvCalls>>
  /\ UNCHANGED notOcv

\* The import rejects.
OcvImportFails ==
  /\ ocvImport = "importing"
  /\ ocvImport' = "failed"
  /\ OcvRaceSettles(OcvRejected(ErrImport))
  /\ UNCHANGED <<ocvStarted, ocvInstance, ocvLoadError, ocvTimer, ocvHooks, ocvCalls>>
  /\ UNCHANGED notOcv

\* waitForMat returns: cvInstance = cv (line 156) and importPromise fulfils.
OcvMatAvailable ==
  /\ ocvImport = "waitMat"
  /\ ocvImport' = "ready"
  /\ ocvInstance' = "cv"
  /\ OcvRaceSettles(OcvFulfilled)
  /\ UNCHANGED <<ocvStarted, ocvLoadError, ocvTimer, ocvHooks, ocvCalls>>
  /\ UNCHANGED notOcv

\* waitForMat gives up after its own 60 s (lines 137-142).
OcvMatTimeout ==
  /\ ocvImport = "waitMat"
  /\ ocvImport' = "failed"
  /\ OcvRaceSettles(OcvRejected(ErrMatTimeout))
  /\ UNCHANGED <<ocvStarted, ocvInstance, ocvLoadError, ocvTimer, ocvHooks, ocvCalls>>
  /\ UNCHANGED notOcv

\* The 60 s timer of loadOpenCVInternal fires (lines 160-162).
OcvLoadTimeout ==
  /\ ocvTimer = "armed"
  /\ ocvTimer' = "fired"
  /\ OcvRaceSettles(OcvRejected(ErrOpenCVLoadTimeout))
  /\ UNCHANGED <<ocvStarted, ocvInstance, ocvLoadError, ocvImport, ocvHooks, ocvCalls>>
  /\ UNCHANGED notOcv

NextOcv ==
  \/ OcvMount
  \/ OcvHookSettles
  \/ OcvLoadOpenCV
  \/ OcvCallSettles
  \/ OcvImportResolves
  \/ OcvImportFails
  \/ OcvMatAvailable
  \/ OcvMatTimeout
  \/ OcvLoadTimeout

(***************************************************************************)
(* useAnalysis.ts : runAnalysis  and  analysisStore.ts : the store         *)
(***************************************************************************)
\* Number of runAnalysis calls explored.
AnaMaxCalls == 2

\* initialState (analysisStore.ts lines 53-67), the fields runAnalysis and
\* its guard read or write.
AnaInitialState ==
  [videoFile |-> FALSE, stage |-> "idle", progress |-> 0, isAnalyzing |-> FALSE,
   error |-> "null", result |-> "null"]

\* setVideoFile(file)
AnaSetVideoFileIn(store, file) == [store EXCEPT !.videoFile = file]

\* startAnalysis()
AnaStartAnalysisIn(store) ==
  [store EXCEPT !.stage = "extracting-frames", !.isAnalyzing = TRUE,
                !.error = "null", !.result = "null"]

\* updateProgress({stage, progress})
AnaUpdateProgressIn(store, stage, progress) ==
  [store EXCEPT !.progress = progress, !.stage = stage]

\* setResult(result)
AnaSetResultIn(store) ==
  [store EXCEPT !.result = "result", !.isAnalyzing = FALSE, !.stage = "complete"]

\* setError(error)
AnaSetErrorIn(store, error) ==
  [store EXCEPT !.error = error, !.isAnalyzing = FALSE, !.stage = "error"]

\* A runAnalysis call: where it is, and the store as its last write left it.
AnaCall(pc, wrote) == [pc |-> pc, wrote |-> wrote]
AnaNothingWritten == [none |-> TRUE]

\* The positions at which a call is suspended.
AnaInFlight == {"metadata", "frames", "opencv"}

\* The page is open, nothing is selected.
AnaInit ==
  /\ anaOpen = TRUE
  /\ anaStore = AnaInitialState
  /\ anaCalls = <<>>

\* The analysis page is not open.
AnaIdle ==
  /\ anaOpen = FALSE
  /\ anaStore = AnaInitialState
  /\ anaCalls = <<>>

\* setVideoFile(file) / setVideoFile(null) from the upload zone.
AnaSetVideoFile ==
  /\ anaOpen
  /\ \E file \in BOOLEAN :
       /\ file # anaStore.videoFile
       /\ anaStore' = AnaSetVideoFileIn(anaStore, file)
  /\ UNCHANGED anaCalls
  /\ UNCHANGED anaOpen
  /\ UNCHANGED notAna

\* reset(): the store goes back to initialState (lines 119-126).
AnaReset ==
  /\ anaOpen
  /\ anaStore # AnaInitialState
  /\ anaStore' = AnaInitialState
  /\ UNCHANGED anaCalls
  /\ UNCHANGED anaOpen
  /\ UNCHANGED notAna

\* runAnalysis() up to its first await (useAnalysis.ts lines 343-359): the
\* guard, startAnalysis and the first updateProgress. The component is
\* rendered again after every store change, so the guard sees the current
\* videoFile and isAnalyzing.
AnaRunAnalysis ==
  /\ anaOpen
  /\ Len(anaCalls) < AnaMaxCalls
  /\ IF ~anaStore.videoFile \/ anaStore.isAnalyzing
     THEN /\ anaCalls' = Append(anaCalls, AnaCall("returned", AnaNothingWritten))
          /\ UNCHANGED anaStore
     ELSE /\ anaStore' = AnaUpdateProgressIn(AnaStartAnalysisIn(anaStore), "extracting-frames", 5)
          /\ anaCalls' = Append(anaCalls,
               AnaCall("metadata",
                       AnaUpdateProgressIn(AnaStartAnalysisIn(anaStore), "extracting-frames", 5)))
  /\ UNCHANGED anaOpen
  /\ UNCHANGED notAna

\* A suspended call goes on to position pc after writing store.
AnaContinue(c, pc, store) ==
  /\ anaStore' = store
  /\ anaCalls' = [anaCalls EXCEPT ![c] = AnaCall(pc, store)]

\* video.onloadedmetadata (lines 356-363): progress 10, extractFrames starts.
AnaLoadedMetadata ==
  \E c \in DOMAIN anaCalls :
    /\ anaCalls[c].pc = "metadata"
    /\ AnaContinue(c, "frames", AnaUpdateProgressIn(anaStore, "extracting-frames", 10))
    /\ UNCHANGED anaOpen
    /\ UNCHANGED notAna

\* video.onerror: the catch block calls setError (lines 358, 457-459).
AnaVideoError ==
  \E c \in DOMAIN anaCalls :
    /\ anaCalls[c].pc = "metadata"
    /\ AnaContinue(c, "settled", AnaSetErrorIn(anaStore, "Failed to load video"))
    /\ UNCHANGED anaOpen
    /\ UNCHANGED notAna

\* extractFrames resolves (lines 363-371): without frames the call throws,
\* with frames it reports progress 30 and awaits loadOpenCV.
AnaFramesExtracted ==
  \E c \in DOMAIN anaCalls, frames \in BOOLEAN :
    /\ anaCalls[c].pc = "frames"
    /\ IF frames
       THEN AnaContinue(c, "opencv", AnaUpdateProgressIn(anaStore, "detecting-circle", 30))
       ELSE AnaContinue(c, "settled", AnaSetErrorIn(anaStore, "No frames extracted from video"))
    /\ UNCHANGED anaOpen
    /\ UNCHANGED notAna

\* loadOpenCV resolves (lines 371-459): the rest of the pipeline runs without
\* another await and ends in setResult, or in setError when too few
\* positions were tracked.
AnaOpenCVLoaded ==
  \E c \in DOMAIN anaCalls, tracked \in BOOLEAN :
    /\ anaCalls[c].pc = "opencv"
    /\ IF tracked
       THEN AnaContinue(c, "settled",
                        AnaSetResultIn(AnaUpdateProgressIn(anaStore, "complete", 100)))
       ELSE AnaContinue(c, "settled",
                        AnaSetErrorIn(AnaUpdateProgressIn(anaStore, "tracking-hammer", 50),
                                      "Could not track hammer motion. Please try a clearer video."))
    /\ UNCHANGED anaOpen
    /\ UNCHANGED notAna

NextAna ==
  \/ AnaSetVideoFile
  \/ AnaReset
  \/ AnaRunAnalysis
  \/ AnaLoadedMetadata
  \/ AnaVideoError
  \/ AnaFramesExtracted
  \/ AnaOpenCVLoaded

InitSim == SimInit /\ PvIdle /\ SegIdle /\ FitIdle /\ RejIdle /\ PhysIdle
           /\ DcIdle /\ TurnIdle /\ TpIdle /\ CvIdle /\ CrdIdle
           /\ TrkIdle /\ OcvIdle /\ AnaIdle

SpecSim == InitSim /\ [][NextSim]_vars

InitPv == PvInit /\ SimIdle /\ SegIdle /\ FitIdle /\ RejIdle /\ PhysIdle
          /\ DcIdle /\ TurnIdle /\ TpIdle /\ CvIdle /\ CrdIdle
          /\ TrkIdle /\ OcvIdle /\ AnaIdle

SpecPv == InitPv /\ [][NextPv]_vars

InitSeg == SegInit /\ SimIdle /\ PvIdle /\ FitIdle /\ RejIdle /\ PhysIdle
           /\ DcIdle /\ TurnIdle /\ TpIdle /\ CvIdle /\ CrdIdle
           /\ TrkIdle /\ OcvIdle /\ AnaIdle

SpecSeg == InitSeg /\ [][NextSeg]_vars

InitFit == FitInit /\ SimIdle /\ PvIdle /\ SegIdle /\ RejIdle /\ PhysIdle
           /\ DcIdle /\ TurnIdle /\ TpIdle /\ CvIdle /\ CrdIdle
           /\ TrkIdle /\ OcvIdle /\ AnaIdle

SpecFit == InitFit /\ [][NextFit]_vars

InitRej == RejInit /\ SimIdle /\ PvIdle /\ SegIdle /\ FitIdle /\ PhysIdle
           /\ DcIdle /\ TurnIdle /\ TpIdle /\ CvIdle /\ CrdIdle
           /\ TrkIdle /\ OcvIdle /\ AnaIdle

SpecRej == InitRej /\ [][NextRej]_vars

InitPhys == PhysInit /\ SimIdle /\ PvIdle /\ SegIdle /\ FitIdle /\ RejIdle
            /\ DcIdle /\ TurnIdle /\ TpIdle /\ CvIdle /\ CrdIdle
            /\ TrkIdle /\ OcvIdle /\ AnaIdle

SpecPhys == InitPhys /\ [][NextPhys]_vars

InitDc == DcInit /\ SimIdle /\ PvIdle /\ SegIdle /\ FitIdle /\ RejIdle
          /\ PhysIdle /\ TurnIdle /\ TpIdle /\ CvIdle /\ CrdIdle
          /\ TrkIdle /\ OcvIdle /\ AnaIdle

SpecDc == InitDc /\ [][NextDc]_vars

InitTurn == TurnInit /\ SimIdle /\ PvIdle /\ SegIdle /\ FitIdle /\ RejIdle
            /\ PhysIdle /\ DcIdle /\ TpIdle /\ CvIdle /\ CrdIdle
            /\ TrkIdle /\ OcvIdle /\ AnaIdle

SpecTurn == InitTurn /\ [][NextTurn]_vars

InitTp == TpInit /\ SimIdle /\ PvIdle /\ SegIdle /\ FitIdle /\ RejIdle
          /\ PhysIdle /\ DcIdle /\ TurnIdle /\ CvIdle /\ CrdIdle
          /\ TrkIdle /\ OcvIdle /\ AnaIdle

SpecTp == InitTp /\ [][NextTp]_vars

InitCv == CvInit /\ SimIdle /\ PvIdle /\ SegIdle /\ FitIdle /\ RejIdle
          /\ PhysIdle /\ DcIdle /\ TurnIdle /\ TpIdle /\ CrdIdle
          /\ TrkIdle /\ OcvIdle /\ AnaIdle

SpecCv == InitCv /\ [][NextCv]_vars

InitCrd == CrdInit /\ SimIdle /\ PvIdle /\ SegIdle /\ FitIdle /\ RejIdle
           /\ PhysIdle /\ DcIdle /\ TurnIdle /\ TpIdle /\ CvIdle
           /\ TrkIdle /\ OcvIdle /\ AnaIdle

SpecCrd == InitCrd /\ [][NextCrd]_vars

InitTrk == TrkInit /\ SimIdle /\ PvIdle /\ SegIdle /\ FitIdle /\ RejIdle
           /\ PhysIdle /\ DcIdle /\ TurnIdle /\ TpIdle /\ CvIdle
           /\ CrdIdle /\ OcvIdle /\ AnaIdle

SpecTrk == InitTrk /\ [][NextTrk]_vars

InitOcv == OcvInit /\ SimIdle /\ PvIdle /\ SegIdle /\ FitIdle /\ RejIdle
           /\ PhysIdle /\ DcIdle /\ TurnIdle /\ TpIdle /\ CvIdle
           /\ CrdIdle /\ TrkIdle /\ AnaIdle

SpecOcv == InitOcv /\ [][NextOcv]_vars

InitAna == AnaInit /\ SimIdle /\ PvIdle /\ SegIdle /\ FitIdle /\ RejIdle
           /\ PhysIdle /\ DcIdle /\ TurnIdle /\ TpIdle /\ CvIdle
           /\ CrdIdle /\ TrkIdle /\ OcvIdle

SpecAna == InitAna /\ [][NextAna]_vars

(***************************************************************************)
(* Claims about calculateThrowWithDrag                                     *)
(***************************************************************************)
\* The number of 1 ms steps that fit under the 10 s cap.
MaxLoopSteps == TIME_CAP \div TIME_STEP

\* C1: the integration loop terminates after a bounded number of steps: it
\* never runs more than 10 s / 1 ms = 10,000 iterations, every iteration
\* advances the clock by one step, and once the function has returned the
\* height is no longer above 0 or the time has reached the cap.
C1_LoopTerminates ==
  /\ simSteps <= MaxLoopSteps
  /\ t = simSteps * TIME_STEP
  /\ (simPc = "done" => (~NumGt(y, Num(0)) \/ t >= TIME_CAP))

\* C1 witness: a run that was stopped by the time cap, still above ground.
C1_Witness == simPc = "done" /\ simSteps = MaxLoopSteps /\ NumGt(y, Num(0))

\* C2: the last sample of the returned trajectory is the landing point: its y
\* is exactly 0 and its x and t are the returned distance and flightTime.
C2_LastSampleIsLanding ==
  simPc = "done" =>
    LET tr == simResult.trajectory
        last == tr[Len(tr)]
    IN /\ last.y = Num(0)
       /\ last.x = simResult.distance
       /\ last.t = simResult.flightTime

\* C2 witness: a run that ended by ground impact with the integrated height
\* strictly below zero, so that the final y had to be set to 0.
C2_Witness ==
  /\ simPc = "done"
  /\ ~y.nan /\ y.v < 0
  /\ simSteps > 100
  /\ simResult.distance = x

\* C3 (as claimed): a result that ended by the 10 s cap with the height still
\* above 0 carries an explicit flag that tells it from a ground impact.
C3_CapExitFlagged ==
  (simPc = "done" /\ NumGt(y, Num(0)) /\ t >= TIME_CAP) =>
    ("clamped" \in DOMAIN simResult /\ simResult.clamped = TRUE)

C5_ShortTrajectoryHasNoAnchors ==
  (segPc = "done" /\ Len(segTrajectory) < 10) =>
     /\ segResult.releaseFrame = 0
     /\ segResult.releasePoint = NullPoint
     /\ segResult.landingPoint = NullPoint

\* C5 witness: detection has run on a trajectory of 9 points.
C5_Witness ==
  /\ segPc = "done"
  /\ Len(segTrajectory) = 9
  /\ segResult.releasePoint = NullPoint
  /\ segResult.landingPoint = NullPoint

\* The indices with at least 5 speed steps on each side.
InteriorIndices(traj) ==
  {i \in 0..(Len(traj) - 1) : i >= 5 /\ i + 5 <= Len(traj) - 1}

\* C6: for a trajectory of at least 10 points the release index is an
\* interior index (at least 5 speed steps on each side) and is the first
\* index at which (mean of the next 5 speeds) - (mean of the previous 5
\* speeds) attains its maximum over the interior indices.
C6_ReleaseIsFirstInteriorMaximum ==
  (segPc = "done" /\ Len(segTrajectory) >= 10) =>
     LET vel == Velocities(segTrajectory)
         r == segResult.releaseFrame
     IN /\ r \in InteriorIndices(segTrajectory)
        /\ \A j \in InteriorIndices(segTrajectory) :
              /\ Increase(vel, j) <= Increase(vel, r)
              /\ (j < r => Increase(vel, j) < Increase(vel, r))

\* The indices from releaseIndex + 10 on at which 3 speeds start whose mean
\* is below 2.
SlowIndices(traj, r) ==
  {i \in (r + 10)..(Len(traj) - 1) :
     /\ i + 3 <= Len(traj) - 1
     /\ SliceSum(Velocities(traj), i, i + 3) < 2 * 3}

\* C7: the landing index is the first index i >= releaseIndex + 10 at which
\* the mean of the 3 speeds starting at i is below 2, and trajectory.length - 1
\* when there is no such index.
C7_LandingIsFirstSlowIndex ==
  (segPc = "done" /\ Len(segTrajectory) >= 10) =>
     LET slow == SlowIndices(segTrajectory, segResult.releaseFrame)
     IN segResult.landingIndex =
          IF slow = {} THEN Len(segTrajectory) - 1
          ELSE CHOOSE i \in slow : \A j \in slow : i <= j

(***************************************************************************)
(* Claims about the velocity fit, checked under SpecFit                    *)
(***************************************************************************)
\* Every point of the window has the same timestamp.
ZeroTimeVariance ==
  \A i, j \in 1..Len(fitPoints) : fitPoints[i].f = fitPoints[j].f

\* The window is too short for the function that was called.
WindowTooShort ==
  \/ fitFn = "fitVelocity" /\ Len(fitPoints) < 2
  \/ fitFn = "fitVelocityFromPositions" /\ Len(fitPoints) < 3

\* C8: when every point of the regression window has the same timestamp,
\* fitVelocity returns null and fitVelocityFromPositions returns its failed
\* estimate, and no division by zero is performed.
C8_ZeroTimeVarianceFails ==
  (fitPc = "done" /\ ZeroTimeVariance) =>
     /\ fitResult = (IF fitFn = "fitVelocity" THEN FitNull ELSE ZeroEstimate)
     /\ ~fitDivByZero

\* C9: a window too short to fit a velocity is reported as a distinguishable
\* failure (null), never as an estimate with vx = 0 and vy = 0.
C9_ShortWindowIsNull ==
  (fitPc = "done" /\ WindowTooShort) =>
     /\ fitResult = FitNull
     /\ ~("vx" \in DOMAIN fitResult)

(***************************************************************************)
(* Claims about rejectOutliers, checked under SpecRej                      *)
(***************************************************************************)
\* The squared distance, in square millimetres, of the point from the
\* position (vx * t, vy * t) predicted for it.
SquaredDistance(p, velocity) ==
  (p.x - velocity.vx * p.t) * (p.x - velocity.vx * p.t)
  + (p.y - velocity.vy * p.t) * (p.y - velocity.vy * p.t)

\* The indices of the points within 0.15 m (150 mm) of their prediction.
KeptIndices ==
  {i \in 1..Len(rejPoints) : SquaredDistance(rejPoints[i], rejVelocity) <= 150 * 150}

\* C10: rejectOutliers returns, in their original order, exactly the points
\* whose distance from the predicted position (vx * t, vy * t) is at most
\* 0.15 m; with fewer than 3 points it returns the input unchanged.
C10_KeepsExactlyNearPoints ==
  rejPc = "done" =>
     IF Len(rejPoints) < 3 THEN rejResult = rejPoints
     ELSE /\ Len(rejResult) = Cardinality(KeptIndices)
          /\ \A k \in 1..Len(rejResult) :
               \E i \in KeptIndices :
                 /\ Cardinality({j \in KeptIndices : j < i}) = k - 1
                 /\ rejResult[k] = rejPoints[i]

\* C10 witness: of at least 3 points some are dropped and a point exactly
\* 0.15 m from its prediction is kept.
C10_Witness ==
  /\ rejPc = "done"
  /\ Len(rejPoints) >= 3
  /\ rejResult # <<>>
  /\ Len(rejResult) < Len(rejPoints)
  /\ \E k \in 1..Len(rejResult) : SquaredDistance(rejResult[k], rejVelocity) = 150 * 150

\* C11: outlier rejection is idempotent; filtering the filtered points again,
\* with the same velocity and threshold, returns the same points (so a fit of
\* them is a fit of the same input).
C11_RejectionIsIdempotent ==
  rejPc = "again" => rejSecond = rejResult

\* C11 witness: the first pass dropped a point of at least 4, at least 3 were
\* left for the second pass to examine, and the second pass kept them all.
C11_Witness ==
  /\ rejPc = "again"
  /\ Len(rejResult) < Len(rejPoints)
  /\ Len(rejResult) >= 3
  /\ rejSecond = rejResult

\* C12: the confidence fitVelocityFromPositions returns is a scalar in
\* [0, 1], for every window.
C12_ConfidenceInUnitInterval ==
  (fitPc = "done" /\ fitFn = "fitVelocityFromPositions") =>
     /\ ~DLt(fitResult.confidence, DZero)
     /\ ~DLt(DInt(1), fitResult.confidence)

\* The raw angle of the call that has returned, before the reflection.
C13_RawAngle ==
  Abs(Atan2(physTrajectory[physArgs.releaseFrame + 1].y
              - physTrajectory[physArgs.releaseFrame + ANGLE_SAMPLES + 1].y,
            physTrajectory[physArgs.releaseFrame + ANGLE_SAMPLES + 1].x
              - physTrajectory[physArgs.releaseFrame + 1].x))

\* C13: the releaseAngle calculatePhysics returns lies in [0, 90] degrees for
\* every trajectory and release index.
C13_ReleaseAngleInQuadrant ==
  physPc = "done" => physResult.releaseAngle >= 0 /\ physResult.releaseAngle <= 90000

\* C13 witness: a call whose raw angle was beyond 90 degrees and came back
\* reflected as 180 - angle.
C13_Witness ==
  /\ physPc = "done"
  /\ Len(physTrajectory) > physArgs.releaseFrame + ANGLE_SAMPLES
  /\ C13_RawAngle > 90000
  /\ physResult.releaseAngle = 180000 - C13_RawAngle
  /\ physResult.releaseAngle <= 90000

\* C16: calculatePhysics measures the time between trajectory indices i and j
\* as (j - i) * frameStep / fps: releaseVelocity is the displacement over 3
\* samples divided by 3 * frameStep / fps, and flightTime is
\* (landingFrame - releaseFrame) * frameStep / fps.
C16_TimeAxisUsesFrameStep ==
  (physPc = "done" /\ Len(physTrajectory) > physArgs.releaseFrame + PHYS_MIN_TRAILING) =>
    /\ physResult.releaseVelocity =
         (LengthMicro(physTrajectory[physArgs.releaseFrame + VELOCITY_SAMPLES + 1].x
                        - physTrajectory[physArgs.releaseFrame + 1].x,
                      physTrajectory[physArgs.releaseFrame + VELOCITY_SAMPLES + 1].y
                        - physTrajectory[physArgs.releaseFrame + 1].y,
                      physArgs.scaleFactor) * physArgs.fps)
           \div (VELOCITY_SAMPLES * PHYS_FRAME_STEP)
    /\ physResult.flightTime =
         RoundDiv((LandingFrame(physTrajectory, physArgs.releaseFrame) - physArgs.releaseFrame)
                    * PHYS_FRAME_STEP * 1000000, physArgs.fps)

\* The confidences with two decimals, as doubles.
C14_Hundredths == [k \in 0..100 |-> DDiv(DInt(k), DInt(100))]

\* 100 * clamp(1 - |tracked - predicted| / mean, 0, 1) times tracked + predicted,
\* exactly.
C14_Scaled(c) ==
  100 * (IF c.tracked + c.predicted - 2 * Abs(c.tracked - c.predicted) < 0 THEN 0
         ELSE c.tracked + c.predicted - 2 * Abs(c.tracked - c.predicted))

\* C14: distanceConfidence is in [0, 1]; it is 0 when trackedDistance <= 0 or
\* predictedDistance <= 0, and otherwise clamp(1 - |tracked - predicted| /
\* mean(tracked, predicted), 0, 1) rounded to 2 decimals.
C14_DistanceConfidence ==
  dcLast # NoDcCall =>
    /\ ~DLt(dcLast.confidence, DZero)
    /\ ~DLt(DInt(1), dcLast.confidence)
    /\ (dcLast.tracked <= 0 \/ dcLast.predicted <= 0) => dcLast.confidence = DZero
    /\ (dcLast.tracked > 0 /\ dcLast.predicted > 0) =>
         \E k \in 0..100 :
           /\ 2 * Abs(k * (dcLast.tracked + dcLast.predicted) - C14_Scaled(dcLast))
                <= dcLast.tracked + dcLast.predicted
           /\ dcLast.confidence = C14_Hundredths[k]

\* C14 witness: a call with two positive distances whose confidence is
\* strictly between 0 and 1 and is not the unrounded value.
C14_Witness ==
  /\ dcLast # NoDcCall
  /\ dcLast.tracked > 0
  /\ dcLast.predicted > 0
  /\ DLt(DZero, dcLast.confidence)
  /\ DLt(dcLast.confidence, DInt(1))
  /\ C14_Scaled(dcLast) % (dcLast.tracked + dcLast.predicted) # 0

\* Both calls were made with positive distances of the same mean, and the
\* first with the larger |tracked - predicted|.
C15_SameMeanLargerDifference ==
  /\ dcPrevious # NoDcCall
  /\ dcPrevious.tracked > 0 /\ dcPrevious.predicted > 0
  /\ dcLast.tracked > 0 /\ dcLast.predicted > 0
  /\ dcPrevious.tracked + dcPrevious.predicted = dcLast.tracked + dcLast.predicted
  /\ Abs(dcPrevious.tracked - dcPrevious.predicted) > Abs(dcLast.tracked - dcLast.predicted)

\* C15: of two pairs of positive distances with the same mean, the pair with
\* the larger |tracked - predicted| gets a strictly smaller distanceConfidence.
C15_ConfidenceStrictlyMonotone ==
  C15_SameMeanLargerDifference => DLt(dcPrevious.confidence, dcLast.confidence)

\* The trajectory advances by the same non-zero angle from each sample to the
\* next and ends, at the release index, exactly 3 full rotations after its
\* first sample.
C17_ThreeFullRotations ==
  /\ turnPc = "done"
  /\ turnReleaseIndex = Len(turnTrajectory) - 1
  /\ Len(turnTrajectory) >= 2
  /\ TurnChanges(turnTrajectory) = 0
  /\ TurnAdvance(turnTrajectory, 1) # 0
  /\ Abs(TurnAdvance(turnTrajectory, 1)) * turnReleaseIndex = 3 * 8

\* C17: for a trajectory of exactly 3 full rotations at a constant angular
\* rate ending at the release index, analyzeTurns returns exactly 3
\* TurnMetrics, numbered 1..3, all with the same durationSec.
C17_ThreeEqualTurns ==
  C17_ThreeFullRotations =>
    /\ Len(turnResult) = 3
    /\ \A k \in 1..3 :
         /\ turnResult[k].turnNumber = k
         /\ turnResult[k].durationSec = turnResult[1].durationSec

C19_SameInstance ==
  \A c1 \in DOMAIN cvCall, c2 \in DOMAIN cvCall :
    (cvCall[c1].pc = "resolved" /\ cvCall[c2].pc = "resolved") =>
      /\ cvCall[c1].value.ref = cvCall[c2].value.ref
      /\ "Mat" \in cvCall[c1].value.props

\* C20: after any sequence of calibration actions the page runs the analysis
\* only with appState.pixelsPerMeter > 0.
C20_AnalysisHasPositiveScale ==
  tpAnalysed # NoRatio => RatioPositive(tpAnalysed)

\* C21: calculateThrowWithDrag never divides by a zero speed: for vx0 = vy0 = 0
\* with releaseHeight > 0 the returned distance, flightTime and
\* landingVelocity are finite numbers and the final sample has a finite x.
C21_ZeroVelocityIsFinite ==
  (simPc = "done" /\ params.vx0 = 0 /\ params.vy0 = 0 /\ params.releaseHeight > 0) =>
    /\ ~simResult.distance.nan
    /\ ~simResult.landingVelocity.nan
    /\ ~simResult.trajectory[Len(simResult.trajectory)].x.nan

\* C22: for release height 0 and an upward launch (vx0 > 0, vy0 > 0)
\* calculateThrowWithDrag integrates the flight until the height comes back to
\* zero: the returned flightTime, distance and maxHeight are all > 0.
C22_GroundLaunchFlies ==
  (simPc = "done" /\ params.releaseHeight = 0 /\ params.vx0 > 0 /\ params.vy0 > 0) =>
    /\ simResult.flightTime > 0
    /\ NumGt(simResult.distance, Num(0))
    /\ NumGt(simResult.maxHeight, Num(0))

\* C23: whenever the simulation runs for more than 100 integration steps, the
\* returned trajectory holds intermediate samples between the release sample
\* and the landing sample, one per 100 integration steps.
C23_TrajectoryIsDecimated ==
  (simPc = "done" /\ simSteps > 100) =>
    Len(simResult.trajectory) >= 2 + (simSteps \div 100) - 1

\* C24: the trajectory, releasePoint and landingPoint handed to
\* calculatePhysics are in original-video pixel coordinates (canvas
\* coordinates divided by the scale), the same frame as the per-frame points
\* posted by processFrame, for every video size.
C24_PhysicsGetsVideoCoordinates ==
  crdPc = "physics" =>
    /\ crdPhysics.trajectory = crdReported
    /\ crdPhysics.releasePoint = DivScale(crdTrajectory[crdPhysics.releaseFrame + 1], crdScale)
    /\ crdPhysics.landingPoint \in {DivScale(crdTrajectory[k], crdScale) : k \in DOMAIN crdTrajectory}

\* C25: for every trajectory of n >= 10 points detectReleaseAndLanding
\* returns 0 <= releaseFrame <= n - 7 and releaseFrame < landingIndex <= n - 1,
\* so that trajectory.length > releaseFrame + 5, the guard of
\* calculateReleaseMetrics and calculateFlightTime, holds.
C25_AnchorsLeaveTrailingWindow ==
  (segPc = "done" /\ Len(segTrajectory) >= 10) =>
     /\ 0 <= segResult.releaseFrame
     /\ segResult.releaseFrame <= Len(segTrajectory) - 7
     /\ segResult.releaseFrame < segResult.landingIndex
     /\ segResult.landingIndex <= Len(segTrajectory) - 1
     /\ Len(segTrajectory) > segResult.releaseFrame + PHYS_MIN_TRAILING

\* C25 witness: detection has put the release at the last index the release
\* loop visits, n - 7, and the landing at the last point.
C25_Witness ==
  /\ segPc = "done"
  /\ Len(segTrajectory) >= 10
  /\ segResult.releaseFrame > 0
  /\ segResult.releaseFrame = Len(segTrajectory) - 7
  /\ segResult.landingIndex = Len(segTrajectory) - 1

\* C26: the list returned by analyzeTurns is ordered and contiguous: the
\* turnNumber values are 1, 2, ..., k in order, the first turn starts at
\* index 0, each later turn starts where the previous one ends, and every
\* turn has startIndex < endIndex <= releaseIndex.
C26_TurnsOrderedAndContiguous ==
  turnPc = "done" =>
    \A k \in 1..Len(turnResult) :
      /\ turnResult[k].turnNumber = k
      /\ turnResult[k].startIndex = IF k = 1 THEN 0 ELSE turnResult[k - 1].endIndex
      /\ turnResult[k].startIndex < turnResult[k].endIndex
      /\ turnResult[k].endIndex <= turnReleaseIndex

\* C26 witness: analyzeTurns has returned at least two turns, the last of
\* them ending before the release index.
C26_Witness ==
  /\ turnPc = "done"
  /\ Len(turnResult) >= 2
  /\ turnResult[Len(turnResult)].endIndex < turnReleaseIndex

\* C27: trackHammerTrajectoryWithWorker terminates the Worker it created on
\* every exit path: once the call has returned or thrown, the worker is
\* terminated.
C27_WorkerTerminatedOnExit ==
  trkPc = "done" => trkWorker = "terminated"

\* C28: in the OpenCV loader the loaded and the failed state exclude each
\* other: in no reachable state is cvInstance non-null together with
\* loadError non-null.
C28_LoadedExcludesFailed ==
  ~(ocvInstance # "null" /\ ocvLoadError # "null")

\* The two terminal states of the store.
AnaTerminal(store) ==
  /\ ~store.isAnalyzing
  /\ \/ store.stage = "complete" /\ store.result # "null" /\ store.error = "null"
     \/ store.stage = "error" /\ store.error # "null" /\ store.result = "null"

\* C29: a runAnalysis call that passed its guard and called startAnalysis
\* settles the store in exactly one terminal state with isAnalyzing = false:
\* stage 'complete' with a result and no error, or stage 'error' with an error
\* and no result.
C29_SettlesInOneTerminalState ==
  \A c \in DOMAIN anaCalls :
    anaCalls[c].pc = "settled" => AnaTerminal(anaCalls[c].wrote)

\* C30: at most one analysis pipeline is in flight at a time: a runAnalysis
\* call made while an earlier call has not settled returns without calling
\* startAnalysis.
C30_OnePipelineInFlight ==
  Cardinality({c \in DOMAIN anaCalls : anaCalls[c].pc \in AnaInFlight}) <= 1

=============================================================================
